---------------------------- MODULE Spec2Model ----------------------------
(***************************************************************************)
(* Model of the SMC detection-and-scoring engine of SmartMoneyTrader:      *)
(*   - backend/services/smc_detection.py   (SMCDetectionService)           *)
(*   - backend/services/ml_pattern_recognition.py (ensemble voting of      *)
(*     MLPatternRecognitionService.predict_patterns)                       *)
(*                                                                         *)
(* Numbers.  Prices are integers counted in pips (1 pip = 0.0001, so       *)
(* 1.0000 is 10000).  Every quantity the code computes as a float          *)
(* (ratios, confidences, moving averages, mid prices) is an exact          *)
(* rational <<n, d>> with d > 0, kept in lowest terms; float rounding is   *)
(* not modelled.  A float NaN is the pair <<0, 0>>.                        *)
(*                                                                         *)
(* Indices.  The code is 0-based; sequences here are 1-based.  Row(df, i)  *)
(* is df.iloc[i], and every index named i, j, index below is the code's    *)
(* 0-based position.                                                       *)
(***************************************************************************)
EXTENDS Integers, Sequences, FiniteSets, TLC

VARIABLES
    \* ---- MLPatternRecognitionService (ensemble aggregator) ----
    models,           \* self.models with self.model_status, in dict order
    decision,         \* the dict predict_patterns returned ("none" before)
    \* ---- one direct call of a detector entry point ----
    historical_data,  \* the caller's bar list handed to the call
    callee,           \* which entry point has been called ("none" before)
    detected,         \* the list of SMCPattern the call returned
    frame,            \* the DataFrame the call worked on, as the call left it
    \* ---- SMCDetectionService instance and its background loop ----
    patterns,         \* self.patterns
    running,          \* self.running
    market_data_service, \* self.market_data_service ("None" or "set")
    now,              \* wall clock, in hours
    loops,            \* the start_pattern_detection tasks, each with its pc
    recent,           \* what a get_recent_patterns call is returning
    history           \* bookkeeping for the properties (never read by actions)

vars == <<models, decision, historical_data, callee, detected, frame,
          patterns, running, market_data_service, now, loops, recent, history>>

aggVars    == <<models, decision>>
callVars   == <<historical_data, callee, detected, frame>>
svcVars    == <<patterns, running, market_data_service, now, loops, recent, history>>

-----------------------------------------------------------------------------
(* Exact rationals standing for the code's floats *)

RECURSIVE GCD(_, _)
GCD(a, b) ==
    IF b = 0 THEN a ELSE GCD(b, a % b)

AbsInt(x) ==
    IF x < 0 THEN -x ELSE x

\* the rational n/d (d # 0) in lowest terms with a positive denominator
R(n, d) ==
    LET g == GCD(AbsInt(n), AbsInt(d))
        s == IF d < 0 THEN -1 ELSE 1
    IN  <<s * (n \div g), s * (d \div g)>>

RInt(n) ==
    <<n, 1>>

RAdd(a, b) ==
    R(a[1] * b[2] + b[1] * a[2], a[2] * b[2])

RSub(a, b) ==
    R(a[1] * b[2] - b[1] * a[2], a[2] * b[2])

RMul(a, b) ==
    R(a[1] * b[1], a[2] * b[2])

RLt(a, b) ==
    a[1] * b[2] < b[1] * a[2]

RLe(a, b) ==
    a[1] * b[2] <= b[1] * a[2]

RAbs(a) ==
    <<AbsInt(a[1]), a[2]>>

\* Python's min(a, b) / max(a, b) on two numbers: the first argument is kept
\* unless the second is strictly smaller (larger)
RMin(a, b) ==
    IF RLt(b, a) THEN b ELSE a

RMax(a, b) ==
    IF RLt(a, b) THEN b ELSE a

Zero == RInt(0)
One  == RInt(1)


-----------------------------------------------------------------------------
(* MLPatternRecognitionService.predict_patterns: the ensemble aggregator *)

MaxModels == 3

\* the keys of self.model_status, in the order __init__ lists them
ModelNames ==
    <<"random_forest", "svm", "xgboost", "cnn", "lstm">>

PatternTypes ==
    {"BOS", "FVG"}

Directions ==
    {"BULLISH", "BEARISH"}

\* raw confidences a model reports (max of predict_proba) and accuracies
\* model_status records, both in [0, 1].  An untrained entry has accuracy 0.0
\* and its outcome is what calling it would give (a torch module answers
\* without training, an unfitted estimator fails).
ConfLevels ==
    {R(1, 2), One}

AccLevels ==
    {R(1, 2), One}

\* what _predict_with_model does for one model: it returns a prediction
\* dict, returns None (its own try/except), or raises (scaler.transform is
\* outside its try)
Outcomes ==
    [kind : {"ok"}, pattern_type : PatternTypes, direction : Directions,
     confidence : ConfLevels]
    \cup [kind : {"None", "raise"}, pattern_type : {"-"}, direction : {"-"},
          confidence : {Zero}]

\* a third class of the label encoder, answered by the third model only
ThirdClassOutcomes ==
    [kind : {"ok"}, pattern_type : {"OB"}, direction : {"BEARISH"},
     confidence : ConfLevels]

\* the predictions model number i may make
OkOutcomes(i) ==
    {o \in Outcomes : o.kind = "ok"}
    \cup (IF i = 3 THEN ThirdClassOutcomes ELSE {})

\* entry number i of self.models together with its model_status
ModelEntries(i) ==
    [name : {ModelNames[i]}, trained : {TRUE}, accuracy : AccLevels,
     outcome : OkOutcomes(i)]
    \cup [name : {ModelNames[i]}, trained : {TRUE}, accuracy : {One},
          outcome : {o \in Outcomes : o.kind # "ok"}]
    \cup [name : {ModelNames[i]}, trained : {FALSE}, accuracy : {Zero},
          outcome : {o \in Outcomes :
                        \/ o.kind = "None"
                        \/ /\ o.kind = "ok"
                           /\ o.pattern_type = "BOS"
                           /\ o.direction = "BULLISH"
                           /\ o.confidence = One}]

RECURSIVE ModelLists(_)
ModelLists(n) ==
    IF n = 0 THEN {<<>>}
    ELSE LET shorter == ModelLists(n - 1)
         IN  shorter \cup
             {Append(ms, m) : ms \in {x \in shorter : Len(x) = n - 1},
                              m \in ModelEntries(n)}

\* the dict _predict_with_model returns for a model whose prediction works
PredictionDict(m) ==
    [pattern_type |-> m.outcome.pattern_type,
     direction |-> m.outcome.direction,
     confidence |-> m.outcome.confidence,
     model_name |-> m.name,
     model_accuracy |-> m.accuracy]

\* a loop that asks every model, trained or not
RECURSIVE CollectFromAllModels(_, _)
CollectFromAllModels(ms, k) ==
    IF k = 0 THEN <<>>
    ELSE LET before == CollectFromAllModels(ms, k - 1)
             m == ms[k]
         IN  IF m.outcome.kind = "ok" THEN Append(before, PredictionDict(m))
             ELSE before

\* the for loop of predict_patterns over the first k models: untrained models
\* are skipped, a None result is dropped, an exception is caught and dropped
RECURSIVE CollectPredictions(_, _)
CollectPredictions(ms, k) ==
    IF k = 0 THEN <<>>
    ELSE LET before == CollectPredictions(ms, k - 1)
             m == ms[k]
         IN  IF ~m.trained THEN before
             ELSE IF m.outcome.kind = "ok" THEN Append(before, PredictionDict(m))
             ELSE before

\* votes[key] = votes.get(key, 0) + weight on an insertion-ordered dict,
\* kept as the sequence of its items
VotesAdd(votes, key, weight) ==
    IF \E j \in 1..Len(votes) : votes[j].key = key
    THEN [j \in 1..Len(votes) |->
            IF votes[j].key = key
            THEN [key |-> key, weight |-> RAdd(votes[j].weight, weight)]
            ELSE votes[j]]
    ELSE Append(votes, [key |-> key, weight |-> RAdd(Zero, weight)])

\* a weight that leaves the model's accuracy out
RawConfidenceWeight(pred) ==
    pred.confidence

\* weight = pred['confidence'] * pred['model_accuracy']
PredictionWeight(pred) ==
    RMul(pred.confidence, pred.model_accuracy)

\* pattern_votes after the first k predictions
RECURSIVE PatternVotes(_, _)
PatternVotes(predictions, k) ==
    IF k = 0 THEN <<>>
    ELSE VotesAdd(PatternVotes(predictions, k - 1),
                  predictions[k].pattern_type,
                  PredictionWeight(predictions[k]))

\* direction_votes after the first k predictions
RECURSIVE DirectionVotes(_, _)
DirectionVotes(predictions, k) ==
    IF k = 0 THEN <<>>
    ELSE VotesAdd(DirectionVotes(predictions, k - 1),
                  predictions[k].direction,
                  PredictionWeight(predictions[k]))

\* a scan in which a later key of equal weight replaces the best so far
RECURSIVE MaxScanLastWins(_, _, _)
MaxScanLastWins(votes, j, best) ==
    IF j > Len(votes) THEN best
    ELSE MaxScanLastWins(votes, j + 1,
                 IF RLe(votes[best].weight, votes[j].weight) THEN j ELSE best)

\* max(votes, key=votes.get): the scan keeps the best key seen so far and
\* replaces it only by a strictly larger one
RECURSIVE MaxScan(_, _, _)
MaxScan(votes, j, best) ==
    IF j > Len(votes) THEN best
    ELSE MaxScan(votes, j + 1,
                 IF RLt(votes[best].weight, votes[j].weight) THEN j ELSE best)

\* a maximum that answers "NEUTRAL" when the first two keys tie
MaxKeyNeutralOnTie(votes) ==
    IF Len(votes) >= 2 /\ votes[1].weight = votes[2].weight
    THEN "NEUTRAL"
    ELSE votes[MaxScan(votes, 2, 1)].key

MaxKey(votes) ==
    votes[MaxScan(votes, 2, 1)].key

RECURSIVE SumConfidence(_, _)
SumConfidence(predictions, k) ==
    IF k = 0 THEN Zero
    ELSE RAdd(SumConfidence(predictions, k - 1), predictions[k].confidence)

\* a mean of the weights the votes were cast with
RECURSIVE SumWeight(_, _)
SumWeight(predictions, k) ==
    IF k = 0 THEN Zero
    ELSE RAdd(SumWeight(predictions, k - 1), PredictionWeight(predictions[k]))

WeightedConfidence(predictions) ==
    RMul(SumWeight(predictions, Len(predictions)), R(1, Len(predictions)))

\* sum(pred['confidence'] for pred in predictions) / len(predictions)
EnsembleConfidence(predictions) ==
    RMul(SumConfidence(predictions, Len(predictions)), R(1, Len(predictions)))

SentinelDecision ==
    [pattern_type |-> "UNKNOWN",
     direction |-> "NEUTRAL",
     confidence |-> Zero,
     individual_predictions |-> <<>>,
     ensemble_method |-> "no_models_available"]

\* predict_patterns, from the collected predictions on
Aggregate(predictions) ==
    IF Len(predictions) > 0
    THEN [pattern_type |-> MaxKey(PatternVotes(predictions, Len(predictions))),
          direction |-> MaxKey(DirectionVotes(predictions, Len(predictions))),
          confidence |-> EnsembleConfidence(predictions),
          individual_predictions |-> predictions,
          ensemble_method |-> "confidence_weighted_voting"]
    ELSE SentinelDecision

PredictPatterns(ms) ==
    Aggregate(CollectPredictions(ms, Len(ms)))

NotCalled ==
    [ensemble_method |-> "not_called"]

\* a caller awaits predict_patterns once on the service as it stands
PredictPatternsCall ==
    /\ decision = NotCalled
    /\ decision' = PredictPatterns(models)
    /\ UNCHANGED <<models, callVars, svcVars>>

-----------------------------------------------------------------------------
(* The DataFrame detect_patterns builds from the caller's bar list *)

\* float NaN and what comparing with it gives: RLt and RLe are FALSE as soon
\* as one side is NaN, as every float comparison with NaN is
NaN ==
    <<0, 0>>

\* a price in pips as the float the code holds (1.0000 = 10000 pips)
FloatPrice(pips) ==
    RMul(pips, R(1, 10000))

\* a sequence given by a rule, computed once and held as a plain list
AsList(seq) ==
    seq \o <<>>

\* pd.DataFrame(historical_data): one row per dict, labelled by its position
\* in the caller's list (the RangeIndex)
DataFrame(data) ==
    AsList([k \in 1..Len(data) |->
        [label |-> k - 1, timestamp |-> data[k].timestamp,
         open |-> data[k].open, high |-> data[k].high, low |-> data[k].low,
         close |-> data[k].close, volume |-> data[k].volume]])

\* row a comes before row b in df.sort_values('timestamp')
SortsBefore(a, b) ==
    \/ a.timestamp < b.timestamp
    \/ a.timestamp = b.timestamp /\ a.label < b.label

\* df.sort_values('timestamp'): the rows reordered, each keeping its label.
\* A frame already in order, or in exactly the opposite order, is recognised
\* first; otherwise row j goes to the place given by rank[j], the number of
\* rows that sort before it.
SortValues(df) ==
    IF \A k \in 1..(Len(df) - 1) : SortsBefore(df[k], df[k + 1]) THEN df
    ELSE IF \A k \in 1..(Len(df) - 1) : SortsBefore(df[k + 1], df[k])
    THEN AsList([k \in 1..Len(df) |-> df[Len(df) + 1 - k]])
    ELSE LET rank == AsList([j \in 1..Len(df) |->
                        Cardinality({i \in 1..Len(df) : SortsBefore(df[i], df[j])})])
         IN  AsList([k \in 1..Len(df) |->
                        df[CHOOSE j \in 1..Len(df) : rank[j] = k - 1]])

\* df.iloc[i]
Row(df, i) ==
    df[i + 1]

\* the concatenation of f[lo], f[lo+1], ..., f[hi-1]: a for loop over
\* range(lo, hi) whose pass i appends the list f[i]
RECURSIVE Scan(_, _, _)
Scan(f, lo, hi) ==
    IF hi <= lo THEN <<>> ELSE Scan(f, lo, hi - 1) \o f[hi - 1]

SMCPattern(type, direction, price, confidence, timeframe, timestamp, pair) ==
    [type |-> type, direction |-> direction, price |-> price,
     confidence |-> confidence, timeframe |-> timeframe,
     timestamp |-> timestamp, pair |-> pair]

-----------------------------------------------------------------------------
(* Helpers of the detectors *)

\* _calculate_momentum(df, index): the 10-bar relative close change x 100,
\* clamped by max(-1, min(1, .)); index is used as a position (df.iloc)
CalculateMomentum(df, index) ==
    IF index < 10 THEN Zero
    ELSE LET current_price == Row(df, index).close
             prev_price == Row(df, index - 10).close
             price_change == R(current_price - prev_price, prev_price)
         IN  RMax(RInt(-1), RMin(One, RMul(price_change, RInt(100))))

RECURSIVE SumClose(_, _, _)
SumClose(df, lo, hi) ==
    IF hi < lo THEN 0 ELSE SumClose(df, lo, hi - 1) + Row(df, hi).close

RECURSIVE SumVolume(_, _, _)
SumVolume(df, lo, hi) ==
    IF hi < lo THEN 0 ELSE SumVolume(df, lo, hi - 1) + Row(df, hi).volume

\* df['close'].rolling(n).mean() at position i, in pips: NaN on the first
\* n - 1 rows
RollingMean(df, n, i) ==
    IF i < n - 1 THEN NaN ELSE R(SumClose(df, i - n + 1, i), n)

Ma20(df, i) ==
    RollingMean(df, 20, i)

Ma50(df, i) ==
    RollingMean(df, 50, i)

\* the same confidence without the cap min(., 1.0)
UncappedTrendChangeConfidence(df, index) ==
    IF index < 20 THEN Zero
    ELSE LET ma20 == Ma20(df, index)
             ma50 == Ma50(df, index)
             volume == Row(df, index).volume
             sum10 == SumVolume(df, index - 10, index - 1)
         IN  IF ma20 = NaN \/ ma50 = NaN \/ sum10 = 0 THEN NaN
             ELSE RAdd(RMul(FloatPrice(RAbs(RSub(ma20, ma50))), RInt(1000)),
                       RMul(R(volume * 10, sum10), R(1, 10)))

\* _calculate_trend_change_confidence(df, index).  With a zero mean volume
\* the float division gives nan (0/0) or inf (x/0): min(nan, 1.0) is nan and
\* min(inf, 1.0) is 1.0.
CalculateTrendChangeConfidence(df, index) ==
    IF index < 20 THEN Zero
    ELSE LET ma20 == Ma20(df, index)
             ma50 == Ma50(df, index)
             volume == Row(df, index).volume
             sum10 == SumVolume(df, index - 10, index - 1)
         IN  IF ma20 = NaN \/ ma50 = NaN THEN NaN
             ELSE IF sum10 = 0 THEN (IF volume = 0 THEN NaN ELSE One)
             ELSE LET ma_separation == FloatPrice(RAbs(RSub(ma20, ma50)))
                      volume_factor == R(volume * 10, sum10)
                  IN  RMin(RAdd(RMul(ma_separation, RInt(1000)),
                                RMul(volume_factor, R(1, 10))),
                           One)

RECURSIVE MaxClose(_, _, _)
MaxClose(df, lo, hi) ==
    IF hi = lo THEN Row(df, lo).close
    ELSE LET m == MaxClose(df, lo, hi - 1)
         IN  IF Row(df, hi).close > m THEN Row(df, hi).close ELSE m

RECURSIVE MinClose(_, _, _)
MinClose(df, lo, hi) ==
    IF hi = lo THEN Row(df, lo).close
    ELSE LET m == MinClose(df, lo, hi - 1)
         IN  IF Row(df, hi).close < m THEN Row(df, hi).close ELSE m

\* the same move returned as a fraction of the current close, not in percent
CheckFutureMovementAsFraction(df, index, direction) ==
    IF index >= Len(df) - 5 THEN Zero
    ELSE LET current_price == Row(df, index).close
             movement ==
                 IF direction = "up"
                 THEN R(MaxClose(df, index + 1, index + 5) - current_price,
                        current_price)
                 ELSE R(current_price - MinClose(df, index + 1, index + 5),
                        current_price)
         IN  RMax(Zero, movement)

\* _check_future_movement(df, index, direction): the largest favourable move
\* of the next 5 closes, in percent of the current close, floored at 0
CheckFutureMovement(df, index, direction) ==
    IF index >= Len(df) - 5 THEN Zero
    ELSE LET current_price == Row(df, index).close
             movement ==
                 IF direction = "up"
                 THEN R(MaxClose(df, index + 1, index + 5) - current_price,
                        current_price)
                 ELSE R(current_price - MinClose(df, index + 1, index + 5),
                        current_price)
         IN  RMax(Zero, RMul(movement, RInt(100)))

\* a reversal check that takes the bars there are when fewer than 5 follow
CheckReversalStrengthToTheEnd(df, index, direction) ==
    IF index >= Len(df) - 1 THEN Zero
    ELSE LET current_price == Row(df, index).close
             last == IF index + 5 < Len(df) - 1 THEN index + 5 ELSE Len(df) - 1
             future == (index + 1)..last
             reversal_count ==
                 IF direction = "up"
                 THEN Cardinality({j \in future : Row(df, j).close > current_price})
                 ELSE Cardinality({j \in future : Row(df, j).close < current_price})
         IN  R(reversal_count, Cardinality(future))

\* _check_reversal_strength(df, index, direction): the fraction of the next
\* 5 closes beyond the current close
CheckReversalStrength(df, index, direction) ==
    IF index >= Len(df) - 5 THEN Zero
    ELSE LET current_price == Row(df, index).close
             future == (index + 1)..(index + 5)
             reversal_count ==
                 IF direction = "up"
                 THEN Cardinality({j \in future : Row(df, j).close > current_price})
                 ELSE Cardinality({j \in future : Row(df, j).close < current_price})
         IN  R(reversal_count, Cardinality(future))

-----------------------------------------------------------------------------
(* The five detectors *)

\* df['swing_high'] at position i: rolling(window=5, center=True).max() ==
\* df['high']; the centred window is NaN (so the test is False) on the first
\* and last two rows
SwingHigh(df, i) ==
    /\ 2 <= i
    /\ i <= Len(df) - 3
    /\ \A j \in (i - 2)..(i + 2) : Row(df, j).high <= Row(df, i).high

SwingLow(df, i) ==
    /\ 2 <= i
    /\ i <= Len(df) - 3
    /\ \A j \in (i - 2)..(i + 2) : Row(df, j).low >= Row(df, i).low

\* df after the two column assignments df['swing_high'] = ..., df['swing_low'] = ...
WithSwingColumns(df) ==
    AsList([k \in 1..Len(df) |->
        [label |-> df[k].label, timestamp |-> df[k].timestamp,
         high |-> df[k].high, low |-> df[k].low,
         swing_high |-> SwingHigh(df, k - 1),
         swing_low |-> SwingLow(df, k - 1)]])

\* df[df['swing_high']] and df[df['swing_low']]: the selected rows, in order
SwingHighs(df) ==
    SelectSeq(WithSwingColumns(df), LAMBDA row : row.swing_high)

SwingLows(df) ==
    SelectSeq(WithSwingColumns(df), LAMBDA row : row.swing_low)

\* one pass of the bullish loop of _detect_bos_patterns: i is the position in
\* swing_highs (1 <= i < len); curr_high.name is the row's label
BullishBosAt(df, swing_highs, i, pair, timeframe) ==
    LET prev_high == swing_highs[i]
        curr_high == swing_highs[i + 1]
        momentum == CalculateMomentum(df, curr_high.label)
    IN  IF curr_high.high > prev_high.high /\ RLt(R(3, 5), momentum)
        THEN <<SMCPattern("BOS", "BULLISH", RInt(curr_high.high),
                          RMin(momentum, R(19, 20)), timeframe,
                          curr_high.timestamp, pair)>>
        ELSE <<>>

BearishBosAt(df, swing_lows, i, pair, timeframe) ==
    LET prev_low == swing_lows[i]
        curr_low == swing_lows[i + 1]
        momentum == CalculateMomentum(df, curr_low.label)
    IN  IF curr_low.low < prev_low.low /\ RLt(momentum, R(-3, 5))
        THEN <<SMCPattern("BOS", "BEARISH", RInt(curr_low.low),
                          RMin(RAbs(momentum), R(19, 20)), timeframe,
                          curr_low.timestamp, pair)>>
        ELSE <<>>

\* _detect_bos_patterns
DetectBosPatterns(df, pair, timeframe) ==
    IF Len(df) < 10 THEN <<>>
    ELSE LET swing_highs == SwingHighs(df)
             swing_lows == SwingLows(df)
         IN  Scan([i \in 1..(Len(swing_highs) - 1) |->
                      BullishBosAt(df, swing_highs, i, pair, timeframe)],
                  1, Len(swing_highs))
             \o Scan([i \in 1..(Len(swing_lows) - 1) |->
                         BearishBosAt(df, swing_lows, i, pair, timeframe)],
                     1, Len(swing_lows))

\* 1 if ma_20 > ma_50 else -1 at position i (a comparison with NaN is False)
Trend(df, i) ==
    IF RLt(Ma50(df, i), Ma20(df, i)) THEN 1 ELSE -1

\* a pass that does not compare the trend with the trend 10 bars earlier
ChochAtAnyTrend(df, i, pair, timeframe) ==
    LET current_trend == Trend(df, i)
        confidence == CalculateTrendChangeConfidence(df, i)
    IN  IF RLt(R(7, 10), confidence)
        THEN <<SMCPattern("CHoCH",
                          IF current_trend = 1 THEN "BULLISH" ELSE "BEARISH",
                          RInt(Row(df, i).close), confidence, timeframe,
                          Row(df, i).timestamp, pair)>>
        ELSE <<>>

\* one pass of the loop of _detect_choch_patterns
ChochAt(df, i, pair, timeframe) ==
    LET current_trend == Trend(df, i)
        prev_trend == Trend(df, i - 10)
        confidence == CalculateTrendChangeConfidence(df, i)
    IN  IF current_trend # prev_trend /\ RLt(R(7, 10), confidence)
        THEN <<SMCPattern("CHoCH",
                          IF current_trend = 1 THEN "BULLISH" ELSE "BEARISH",
                          RInt(Row(df, i).close), confidence, timeframe,
                          Row(df, i).timestamp, pair)>>
        ELSE <<>>

\* _detect_choch_patterns
DetectChochPatterns(df, pair, timeframe) ==
    IF Len(df) < 15 THEN <<>>
    ELSE Scan([i \in 50..(Len(df) - 1) |-> ChochAt(df, i, pair, timeframe)],
              50, Len(df))

\* a gap test that lets a ratio of exactly 0.0005 pass
FvgAtInclusive(df, i, pair, timeframe) ==
    LET candle1 == Row(df, i - 2)
        candle2 == Row(df, i - 1)
        candle3 == Row(df, i)
    IN  IF candle2.low > candle1.high /\ candle3.low < candle2.high
        THEN LET gap_ratio == R(candle2.low - candle1.high, candle1.high)
             IN  IF RLe(R(5, 10000), gap_ratio)
                 THEN <<SMCPattern("FVG", "BULLISH",
                                   R(candle1.high + candle2.low, 2),
                                   RMin(RMul(gap_ratio, RInt(1000)), R(9, 10)),
                                   timeframe, candle3.timestamp, pair)>>
                 ELSE <<>>
        ELSE IF candle2.high < candle1.low /\ candle3.high > candle2.low
        THEN LET gap_ratio == R(candle1.low - candle2.high, candle1.low)
             IN  IF RLe(R(5, 10000), gap_ratio)
                 THEN <<SMCPattern("FVG", "BEARISH",
                                   R(candle1.low + candle2.high, 2),
                                   RMin(RMul(gap_ratio, RInt(1000)), R(9, 10)),
                                   timeframe, candle3.timestamp, pair)>>
                 ELSE <<>>
        ELSE <<>>

\* a gap test that reports every bullish gap a second time as a bearish one
FvgAtBothDirections(df, i, pair, timeframe) ==
    LET candle1 == Row(df, i - 2)
        candle2 == Row(df, i - 1)
        candle3 == Row(df, i)
    IN  IF candle2.low > candle1.high /\ candle3.low < candle2.high
        THEN LET gap_size == candle2.low - candle1.high
                 gap_ratio == R(gap_size, candle1.high)
             IN  IF gap_size > 0 /\ RLt(R(5, 10000), gap_ratio)
                 THEN <<SMCPattern("FVG", "BULLISH",
                                   R(candle1.high + candle2.low, 2),
                                   RMin(RMul(gap_ratio, RInt(1000)), R(9, 10)),
                                   timeframe, candle3.timestamp, pair),
                        SMCPattern("FVG", "BEARISH",
                                   R(candle1.high + candle2.low, 2),
                                   RMin(RMul(gap_ratio, RInt(1000)), R(9, 10)),
                                   timeframe, candle3.timestamp, pair)>>
                 ELSE <<>>
        ELSE <<>>

\* one pass of the loop of _detect_fvg_patterns, for the triple ending at i
FvgAt(df, i, pair, timeframe) ==
    LET candle1 == Row(df, i - 2)
        candle2 == Row(df, i - 1)
        candle3 == Row(df, i)
    IN  IF candle2.low > candle1.high /\ candle3.low < candle2.high
        THEN LET gap_size == candle2.low - candle1.high
                 gap_ratio == R(gap_size, candle1.high)
             IN  IF gap_size > 0 /\ RLt(R(5, 10000), gap_ratio)
                 THEN <<SMCPattern("FVG", "BULLISH",
                                   R(candle1.high + candle2.low, 2),
                                   RMin(RMul(gap_ratio, RInt(1000)), R(9, 10)),
                                   timeframe, candle3.timestamp, pair)>>
                 ELSE <<>>
        ELSE IF candle2.high < candle1.low /\ candle3.high > candle2.low
        THEN LET gap_size == candle1.low - candle2.high
                 gap_ratio == R(gap_size, candle1.low)
             IN  IF gap_size > 0 /\ RLt(R(5, 10000), gap_ratio)
                 THEN <<SMCPattern("FVG", "BEARISH",
                                   R(candle1.low + candle2.high, 2),
                                   RMin(RMul(gap_ratio, RInt(1000)), R(9, 10)),
                                   timeframe, candle3.timestamp, pair)>>
                 ELSE <<>>
        ELSE <<>>

\* _detect_fvg_patterns
DetectFvgPatterns(df, pair, timeframe) ==
    IF Len(df) < 3 THEN <<>>
    ELSE Scan([i \in 2..(Len(df) - 1) |-> FvgAt(df, i, pair, timeframe)],
              2, Len(df))

MaxInt(a, b) ==
    IF b > a THEN b ELSE a

MinInt(a, b) ==
    IF b < a THEN b ELSE a

\* one pass of the loop of _detect_order_blocks
OrderBlockAt(df, i, pair, timeframe) ==
    LET candle == Row(df, i)
        body_size == AbsInt(candle.close - candle.open)
        total_range == candle.high - candle.low
        upper_wick == candle.high - MaxInt(candle.open, candle.close)
        lower_wick == MinInt(candle.open, candle.close) - candle.low
    IN  IF total_range > 0
        THEN IF lower_wick > body_size * 2
                /\ RLt(RMul(RInt(total_range), R(6, 10)), RInt(lower_wick))
             THEN IF RLt(R(3, 10), CheckFutureMovement(df, i, "up"))
                  THEN <<SMCPattern("OB", "BULLISH", RInt(candle.low),
                                    RMin(R(lower_wick, total_range), R(9, 10)),
                                    timeframe, candle.timestamp, pair)>>
                  ELSE <<>>
             ELSE IF upper_wick > body_size * 2
                     /\ RLt(RMul(RInt(total_range), R(6, 10)), RInt(upper_wick))
             THEN IF RLt(R(3, 10), CheckFutureMovement(df, i, "down"))
                  THEN <<SMCPattern("OB", "BEARISH", RInt(candle.high),
                                    RMin(R(upper_wick, total_range), R(9, 10)),
                                    timeframe, candle.timestamp, pair)>>
                  ELSE <<>>
             ELSE <<>>
        ELSE <<>>

\* _detect_order_blocks
DetectOrderBlocks(df, pair, timeframe) ==
    IF Len(df) < 10 THEN <<>>
    ELSE Scan([i \in 5..(Len(df) - 1) |-> OrderBlockAt(df, i, pair, timeframe)],
              5, Len(df))

\* x > df.iloc[lo:hi+1]['high'].max() and x < df.iloc[lo:hi+1]['low'].min()
AboveMaxHigh(df, x, lo, hi) ==
    \A j \in lo..hi : x > Row(df, j).high

BelowMinLow(df, x, lo, hi) ==
    \A j \in lo..hi : x < Row(df, j).low

\* a sweep test asking for more than 0.6 of the closes, so that three of
\* five do not confirm
LiquiditySweepAtFourOfFive(df, i, pair, timeframe) ==
    LET candle == Row(df, i)
    IN  IF AboveMaxHigh(df, candle.high, i - 10, i - 1)
        THEN LET reversal_strength == CheckReversalStrength(df, i, "down")
             IN  IF RLt(R(3, 5), reversal_strength)
                 THEN <<SMCPattern("LS", "BEARISH", RInt(candle.high),
                                   RMin(reversal_strength, R(85, 100)),
                                   timeframe, candle.timestamp, pair)>>
                 ELSE <<>>
        ELSE IF BelowMinLow(df, candle.low, i - 10, i - 1)
        THEN LET reversal_strength == CheckReversalStrength(df, i, "up")
             IN  IF RLt(R(3, 5), reversal_strength)
                 THEN <<SMCPattern("LS", "BULLISH", RInt(candle.low),
                                   RMin(reversal_strength, R(85, 100)),
                                   timeframe, candle.timestamp, pair)>>
                 ELSE <<>>
        ELSE <<>>

\* a sweep test that reports the reversal strength itself as confidence
LiquiditySweepAtUncapped(df, i, pair, timeframe) ==
    LET candle == Row(df, i)
    IN  IF AboveMaxHigh(df, candle.high, i - 10, i - 1)
        THEN LET reversal_strength == CheckReversalStrength(df, i, "down")
             IN  IF RLt(R(1, 2), reversal_strength)
                 THEN <<SMCPattern("LS", "BEARISH", RInt(candle.high),
                                   reversal_strength,
                                   timeframe, candle.timestamp, pair)>>
                 ELSE <<>>
        ELSE IF BelowMinLow(df, candle.low, i - 10, i - 1)
        THEN LET reversal_strength == CheckReversalStrength(df, i, "up")
             IN  IF RLt(R(1, 2), reversal_strength)
                 THEN <<SMCPattern("LS", "BULLISH", RInt(candle.low),
                                   reversal_strength,
                                   timeframe, candle.timestamp, pair)>>
                 ELSE <<>>
        ELSE <<>>

\* one pass of the loop of _detect_liquidity_sweeps (the equal_highs and
\* equal_lows columns it computes first are never read)
LiquiditySweepAt(df, i, pair, timeframe) ==
    LET candle == Row(df, i)
    IN  IF AboveMaxHigh(df, candle.high, i - 10, i - 1)
        THEN LET reversal_strength == CheckReversalStrength(df, i, "down")
             IN  IF RLt(R(1, 2), reversal_strength)
                 THEN <<SMCPattern("LS", "BEARISH", RInt(candle.high),
                                   RMin(reversal_strength, R(85, 100)),
                                   timeframe, candle.timestamp, pair)>>
                 ELSE <<>>
        ELSE IF BelowMinLow(df, candle.low, i - 10, i - 1)
        THEN LET reversal_strength == CheckReversalStrength(df, i, "up")
             IN  IF RLt(R(1, 2), reversal_strength)
                 THEN <<SMCPattern("LS", "BULLISH", RInt(candle.low),
                                   RMin(reversal_strength, R(85, 100)),
                                   timeframe, candle.timestamp, pair)>>
                 ELSE <<>>
        ELSE <<>>

\* _detect_liquidity_sweeps
DetectLiquiditySweeps(df, pair, timeframe) ==
    IF Len(df) < 20 THEN <<>>
    ELSE Scan([i \in 15..(Len(df) - 1) |->
                 LiquiditySweepAt(df, i, pair, timeframe)],
              15, Len(df))

\* the frame as _detect_bos_patterns leaves it: the two columns it assigns
\* (none when it returns early)
AfterDetectBos(df) ==
    IF Len(df) < 10 THEN df
    ELSE AsList([k \in 1..Len(df) |->
            df[k] @@ [swing_high |-> SwingHigh(df, k - 1),
                      swing_low |-> SwingLow(df, k - 1)]])

\* the frame as _detect_choch_patterns leaves it
AfterDetectChoch(df) ==
    IF Len(df) < 15 THEN df
    ELSE AsList([k \in 1..Len(df) |->
            df[k] @@ [ma_20 |-> Ma20(df, k - 1), ma_50 |-> Ma50(df, k - 1)]])

\* rolling(window=10, center=True).apply(lambda x: len(set(np.round(x, 4)))
\* < len(x) * 0.7) at position i over the values of column col: the window
\* is positions i-5 .. i+4, NaN where it is not complete, else 1.0 or 0.0:
\* len(x) * 0.7 is 7.0, and prices in pips have four decimals, so the
\* rounding changes nothing
EqualLevels(df, col, i) ==
    IF i < 5 \/ i + 4 > Len(df) - 1 THEN NaN
    ELSE IF Cardinality({Row(df, j)[col] : j \in (i - 5)..(i + 4)}) < 7
    THEN One ELSE Zero

\* the frame as _detect_liquidity_sweeps leaves it
AfterDetectLiquiditySweeps(df) ==
    IF Len(df) < 20 THEN df
    ELSE AsList([k \in 1..Len(df) |->
            df[k] @@ [equal_highs |-> EqualLevels(df, "high", k - 1),
                      equal_lows |-> EqualLevels(df, "low", k - 1)]])

\* the local df of detect_patterns when it returns (no frame is built when
\* it returns early); the gap and order-block detectors assign no column
FrameOfDetectPatterns(data) ==
    IF Len(data) = 0 \/ Len(data) < 20 THEN <<>>
    ELSE AfterDetectLiquiditySweeps(
             AfterDetectChoch(AfterDetectBos(SortValues(DataFrame(data)))))

\* a detect_patterns that sorts the caller's list itself,
\* historical_data.sort(key=timestamp), instead of sorting the frame
HistoricalDataSortedInPlace(data) ==
    LET sorted == SortValues(DataFrame(data))
    IN  AsList([k \in 1..Len(data) |-> data[sorted[k].label + 1]])

\* the caller's list after detect_patterns: pd.DataFrame(historical_data)
\* copies the values out of the dicts, and every later assignment goes to
\* the frame; neither the list nor a dict in it is written
HistoricalDataAfter(data) ==
    data

MinBars == 20

\* a detect_patterns that gives up as soon as one detector lacks bars: the
\* trend detector's loop needs more than 50
DetectPatternsAllOrNothing(self, data, pair, timeframe) ==
    IF Len(data) <= 50 THEN <<>>
    ELSE LET df == SortValues(DataFrame(data))
         IN  DetectBosPatterns(df, pair, timeframe)
             \o DetectChochPatterns(df, pair, timeframe)
             \o DetectFvgPatterns(df, pair, timeframe)
             \o DetectOrderBlocks(df, pair, timeframe)
             \o DetectLiquiditySweeps(df, pair, timeframe)

\* a detect_patterns that leaves out what the instance already stores
DetectPatternsUnseen(self, data, pair, timeframe) ==
    IF Len(data) = 0 \/ Len(data) < MinBars THEN <<>>
    ELSE LET df == SortValues(DataFrame(data))
             all == DetectBosPatterns(df, pair, timeframe)
                    \o DetectChochPatterns(df, pair, timeframe)
                    \o DetectFvgPatterns(df, pair, timeframe)
                    \o DetectOrderBlocks(df, pair, timeframe)
                    \o DetectLiquiditySweeps(df, pair, timeframe)
         IN  SelectSeq(all, LAMBDA p :
                 \A j \in 1..Len(self.patterns) : self.patterns[j] # p)

\* detect_patterns(self, historical_data, pair, timeframe); self is the
\* service instance (its stored patterns and flags), which the code never
\* reads here
DetectPatterns(self, data, pair, timeframe) ==
    IF Len(data) = 0 \/ Len(data) < MinBars THEN <<>>
    ELSE LET df == SortValues(DataFrame(data))
         IN  DetectBosPatterns(df, pair, timeframe)
             \o DetectChochPatterns(df, pair, timeframe)
             \o DetectFvgPatterns(df, pair, timeframe)
             \o DetectOrderBlocks(df, pair, timeframe)
             \o DetectLiquiditySweeps(df, pair, timeframe)

-----------------------------------------------------------------------------
(* The bar lists handed to the detectors: a flat market at 1.0000 carrying *)
(* one motif, a short run of shaped candles, somewhere along it            *)

\* the longest motif enumerated exhaustively
MaxFree == 2

\* a candle shape: open, high, low, close in pips relative to 1.0000; every
\* shape keeps low <= min(open, close) <= max(open, close) <= high
Shapes ==
    [flat     |-> [open |-> 0,  high |-> 0,   low |-> 0,    close |-> 0],
     rally    |-> [open |-> 0,  high |-> 300, low |-> 0,    close |-> 300],
     selloff  |-> [open |-> 0,  high |-> 0,   low |-> -300, close |-> -300],
     push     |-> [open |-> 0,  high |-> 80,  low |-> 0,    close |-> 80],
     star     |-> [open |-> 0,  high |-> 100, low |-> 0,    close |-> 0],
     hammer   |-> [open |-> 0,  high |-> 0,   low |-> -100, close |-> 0],
     gap      |-> [open |-> 20, high |-> 40,  low |-> 20,   close |-> 40],
     pullback |-> [open |-> 30, high |-> 30,  low |-> 10,   close |-> 10],
     nudge    |-> [open |-> 5,  high |-> 5,   low |-> 5,    close |-> 5],
     outside  |-> [open |-> 0,  high |-> 100, low |-> -100, close |-> -50],
     step     |-> [open |-> 6,  high |-> 6,   low |-> 6,    close |-> 6]]

ShapeNames ==
    DOMAIN Shapes

\* the candle of shape s at hour t
Candle(s, t) ==
    [timestamp |-> t,
     open |-> 10000 + Shapes[s].open, high |-> 10000 + Shapes[s].high,
     low |-> 10000 + Shapes[s].low, close |-> 10000 + Shapes[s].close,
     volume |-> 1000]

RECURSIVE MotifsOfLen(_)
MotifsOfLen(k) ==
    IF k = 0 THEN {<<>>}
    ELSE {Append(m, s) : m \in MotifsOfLen(k - 1), s \in ShapeNames}

\* two selloffs 46 bars apart: the long average is below the short one while
\* only the first is in its window, and above it once the second is in both
TwoSelloffs ==
    <<"selloff">> \o [k \in 1..45 |-> "flat"] \o <<"selloff">>

\* motifs picked by hand: every single candle and the runs the detectors'
\* confirmation windows react to
CuratedMotifs ==
    MotifsOfLen(0) \cup MotifsOfLen(1)
    \cup {<<"rally", "rally">>, <<"rally", "selloff">>, <<"selloff", "rally">>,
          <<"star", "selloff">>, <<"hammer", "rally">>, <<"gap", "pullback">>,
          <<"selloff", "gap">>,
          <<"rally", "rally", "rally">>,
          <<"rally", "rally", "rally", "rally">>,
          <<"selloff", "selloff", "selloff">>,
          <<"star", "flat", "selloff">>,
          <<"hammer", "flat", "rally">>,
          <<"flat", "gap", "pullback">>,
          <<"flat", "star", "selloff", "selloff", "selloff">>,
          <<"flat", "hammer", "rally", "rally", "rally">>,
          <<"push", "flat", "flat", "rally">>,
          <<"flat", "star", "flat", "flat", "selloff">>,
          TwoSelloffs}

Lengths ==
    {0, 3, 19, 20, 21, 51, 62}

\* the lengths tried with every motif of up to MaxFree candles: the shortest
\* list the gap detector scans and the shortest that passes every length
\* test of detect_patterns and its detectors but the 50-bar one
ExhaustiveLengths ==
    {3, 21}

\* the motifs a list of n bars is tried with
Motifs(n) ==
    IF n \in ExhaustiveLengths
    THEN CuratedMotifs \cup UNION {MotifsOfLen(k) : k \in 0..MaxFree}
    ELSE CuratedMotifs

\* where a motif may start in a list of n bars: the start of the list, just
\* before the first position each detector scans (5, 10, 15, 50) and just
\* before the last position with 5 bars after it
Offsets(n) ==
    {0, 1, 4, 9, 14, 49, n - 7} \cap 0..n

\* the n hourly bars, oldest first: flat but for the motif starting at
\* position off; bar k carries timestamp k
ChronologicalBars(n, off, motif) ==
    [k \in 1..n |->
        IF off < k /\ k <= off + Len(motif)
        THEN Candle(motif[k - off], k - 1)
        ELSE Candle("flat", k - 1)]

Reverse(seq) ==
    AsList([k \in 1..Len(seq) |-> seq[Len(seq) + 1 - k]])

\* the list as a data source hands it over: oldest first (the mock source)
\* or newest first (the order of the remote API's "values")
Bars(n, off, motif, order) ==
    IF order = "oldest_first" THEN ChronologicalBars(n, off, motif)
    ELSE Reverse(ChronologicalBars(n, off, motif))

\* a caller awaits service.detect_patterns(historical_data, "EURUSD"):
\* timeframe takes its default
CallDetectPatterns ==
    /\ callee = "none"
    /\ callee' = "detect_patterns"
    /\ detected' = DetectPatterns([patterns |-> patterns, running |-> running,
                                   market_data_service |-> market_data_service],
                                  historical_data, "EURUSD", "1h")
    /\ frame' = FrameOfDetectPatterns(historical_data)
    /\ historical_data' = HistoricalDataAfter(historical_data)
    /\ UNCHANGED <<aggVars, svcVars>>

\* a caller awaits the Structure-Break Detector alone on the frame built
\* from the list
CallDetectBosPatterns ==
    /\ callee = "none"
    /\ callee' = "_detect_bos_patterns"
    /\ detected' = DetectBosPatterns(SortValues(DataFrame(historical_data)),
                                     "EURUSD", "1h")
    /\ frame' = AfterDetectBos(SortValues(DataFrame(historical_data)))
    /\ UNCHANGED <<historical_data, aggVars, svcVars>>

\* a caller awaits the Gap Detector alone on the frame built from the list
CallDetectFvgPatterns ==
    /\ callee = "none"
    /\ callee' = "_detect_fvg_patterns"
    /\ detected' = DetectFvgPatterns(SortValues(DataFrame(historical_data)),
                                     "EURUSD", "1h")
    /\ frame' = SortValues(DataFrame(historical_data))
    /\ UNCHANGED <<historical_data, aggVars, svcVars>>

-----------------------------------------------------------------------------
(* app/services/smc_detection.py: the detector on lists of candle dicts  *)
(* that analyze_patterns runs; the candles are used in the order given   *)

\* how many candles at the end of a list are tried with every shape
MaxTail == 3

\* candle shapes around the highs of a flat market, in pips relative to
\* 1.0000: no two highs differ by exactly 0.0005, where the float
\* subtraction of the code would decide
SweepShapes ==
    [flat     |-> [open |-> 0, high |-> 0,  low |-> 0,   close |-> 0],
     poke     |-> [open |-> 0, high |-> 3,  low |-> -10, close |-> -10],
     bullpoke |-> [open |-> 0, high |-> 3,  low |-> 0,   close |-> 3],
     spike    |-> [open |-> 0, high |-> 50, low |-> -10, close |-> -10]]

SweepCandle(shape, t) ==
    [timestamp |-> t,
     open |-> 10000 + SweepShapes[shape].open,
     high |-> 10000 + SweepShapes[shape].high,
     low |-> 10000 + SweepShapes[shape].low,
     close |-> 10000 + SweepShapes[shape].close,
     volume |-> 1000]

RECURSIVE TailsOfLen(_)
TailsOfLen(k) ==
    IF k = 0 THEN {<<>>}
    ELSE {Append(m, shape) : m \in TailsOfLen(k - 1),
                             shape \in DOMAIN SweepShapes}

\* n candles, flat but for the last Len(tail) ones
Candles(n, tail) ==
    [k \in 1..n |->
        IF k > n - Len(tail)
        THEN SweepCandle(tail[k - (n - Len(tail))], k - 1)
        ELSE SweepCandle("flat", k - 1)]

\* one pass of the loop of the dict-based _detect_liquidity_sweeps:
\* current_high is the high of candle i itself, and the sweep test compares
\* candles[i]['high'] with it
DictLiquiditySweepAt(candles, i) ==
    LET current_high == Row(candles, i).high
        equal_highs == {j \in (i - 20)..(i - 1) :
                           AbsInt(Row(candles, j).high - current_high) < 5}
    IN  IF /\ Cardinality(equal_highs) >= 2
           /\ Row(candles, i).high > current_high
           /\ Row(candles, i).close < Row(candles, i).open
        THEN <<[type |-> "LS", direction |-> "BEARISH",
                price |-> RInt(current_high), confidence |-> R(3, 4),
                swept_level |-> RInt(current_high),
                timestamp |-> Row(candles, i).timestamp]>>
        ELSE <<>>

\* patterns[-n:]
LastN(seq, n) ==
    SubSeq(seq, MaxInt(1, Len(seq) - n + 1), Len(seq))

\* the dict-based _detect_liquidity_sweeps(candles)
DictDetectLiquiditySweeps(candles) ==
    LastN(Scan([i \in 20..(Len(candles) - 1) |->
                   DictLiquiditySweepAt(candles, i)],
               20, Len(candles)),
          2)

\* analyze_patterns has fetched the candles and runs the sweep detector
CallDictLiquiditySweeps ==
    /\ callee = "none"
    /\ callee' = "dict _detect_liquidity_sweeps"
    /\ detected' = DictDetectLiquiditySweeps(historical_data)
    /\ UNCHANGED <<historical_data, frame, aggVars, svcVars>>

-----------------------------------------------------------------------------
(* SMCDetectionService: the pattern store and the background loop *)

\* how many of the loop's (pair, timeframe) visits a cycle makes (the code
\* makes eight: four pairs, two timeframes)
MaxVisits == 2

\* detection cycles one loop task may begin
MaxCycles == 2

\* how often the clock may advance
MaxTicks == 1

\* the largest explicit limit a reader passes (besides the default)
MaxLimit == 2

DefaultLimit == 50

RetentionHours == 24

LoopPairs ==
    <<"EURUSD", "GBPUSD", "USDJPY", "AUDUSD">>

LoopTimeframes ==
    <<"1h", "4h">>

\* the (pair, timeframe) visits of one cycle, in the order of the nested for
NumCombos ==
    IF MaxVisits < Len(LoopPairs) * Len(LoopTimeframes)
    THEN MaxVisits ELSE Len(LoopPairs) * Len(LoopTimeframes)

ComboPair(k) ==
    LoopPairs[((k - 1) \div Len(LoopTimeframes)) + 1]

ComboTimeframe(k) ==
    LoopTimeframes[((k - 1) % Len(LoopTimeframes)) + 1]

\* the shapes of the 31 hourly bars a fetch brings, the last bar stamped with
\* the hour of the fetch: a flat market with two small gaps and a rally.
\* The patterns found are stamped 26 h and 25 h before the fetch (two FVGs),
\* exactly 24 h before (an FVG) and 5 h before (a BOS and an LS).
FeedShapes ==
    [k \in 1..31 |->
        IF k \in {4, 6} THEN "step" ELSE IF k = 26 THEN "rally" ELSE "flat"]

\* what market_data_service.get_historical_data may hand back, as the shapes
\* of the bars: nothing, or the feed
Scenarios ==
    {<<>>, FeedShapes}

\* the bars of scenario sc when fetched at hour t
SourceBars(sc, t) ==
    [k \in 1..Len(sc) |-> Candle(sc[k], t - Len(sc) + k)]

\* self as detect_patterns sees it
Self ==
    [patterns |-> patterns, running |-> running,
     market_data_service |-> market_data_service]

\* the prune of start_pattern_detection: cutoff_time = now - 24 h, and
\* self.patterns = [p for p in self.patterns if p.timestamp > cutoff_time]
CutoffTime(t) ==
    t - RetentionHours

\* a prune that keeps the last hour only
KeepLastHour(store, t) ==
    SelectSeq(store, LAMBDA p : p.timestamp > t - 1)

\* a prune with twice the retention
KeepLastTwoDays(store, t) ==
    SelectSeq(store, LAMBDA p : p.timestamp > t - 2 * RetentionHours)

KeepRecent(store, t) ==
    SelectSeq(store, LAMBDA p : p.timestamp > CutoffTime(t))

\* sorted(self.patterns, key=timestamp, reverse=True): stable, so patterns
\* with equal timestamps keep their store order
ComesBefore(store, a, b) ==
    \/ store[a].timestamp > store[b].timestamp
    \/ store[a].timestamp = store[b].timestamp /\ a < b

\* the same sort without reverse=True
SortedOldestFirst(store) ==
    LET after == AsList([a \in 1..Len(store) |->
                    Cardinality({b \in 1..Len(store) : ComesBefore(store, a, b)})])
    IN  AsList([k \in 1..Len(store) |->
                    store[CHOOSE a \in 1..Len(store) : after[a] = k - 1]])

\* the pattern at place k is the one that rank[a] = k - 1 others come before
SortedNewestFirst(store) ==
    LET rank == AsList([a \in 1..Len(store) |->
                    Cardinality({b \in 1..Len(store) : ComesBefore(store, b, a)})])
    IN  AsList([k \in 1..Len(store) |->
                    store[CHOOSE a \in 1..Len(store) : rank[a] = k - 1]])

\* sorted_patterns[:limit] for limit >= 0
FirstN(seq, limit) ==
    SubSeq(seq, 1, MinInt(limit, Len(seq)))

\* the dict get_recent_patterns builds for one pattern; timestamp.isoformat()
\* is a string, kept as the tagged value <<"iso", t>>
PatternDict(p) ==
    [type |-> p.type, direction |-> p.direction, price |-> p.price,
     confidence |-> p.confidence, timeframe |-> p.timeframe,
     timestamp |-> <<"iso", p.timestamp>>, pair |-> p.pair]

\* get_recent_patterns(limit)
RecentPatterns(store, limit) ==
    LET top == FirstN(SortedNewestFirst(store), limit)
    IN  [k \in 1..Len(top) |-> PatternDict(top[k])]

-----------------------------------------------------------------------------
(* Steps of the service.  A step of a loop task runs from one suspension  *)
(* point (an await that really yields) to the next: the awaits of the     *)
(* detectors never yield, the calls of the data source and the sleeps do. *)

NoCall ==
    [key |-> <<>>, result |-> <<>>, stored |-> 0]

\* history after a step that does not prune: the store as it was before the
\* last prune is no longer kept
Forgotten(h) ==
    [h EXCEPT !.last = IF @ = "prune" THEN "pruned" ELSE @, !.before = <<>>]

\* history after a detect_patterns call with input key returning result,
\* the store holding Len(patterns) patterns when it ran.  The observer notes it as the last
\* call, and also as the reference call when note says so; with "skip" it
\* notes nothing.
Recorded(key, result, note) ==
    IF note = "skip" THEN Forgotten(history)
    ELSE [Forgotten(history) EXCEPT
            !.lastCall = [key |-> key, result |-> result,
                          stored |-> Len(patterns)],
            !.ref = IF note = "ref"
                    THEN [key |-> key, result |-> result,
                          stored |-> Len(patterns)]
                    ELSE @]

\* the loop of task t goes on with visit k of its cycle (began: the cycle
\* begins with this step), the store being store (what the visits so far
\* have appended) and h the history so far: it suspends in the next call of
\* the data source, or, the visits over (or no data source set), prunes the
\* store and suspends in sleep(300)
ContinueCycle(t, k, store, h, began) ==
    LET cycles == loops[t].cycles + (IF began THEN 1 ELSE 0)
    IN  IF k <= NumCombos /\ market_data_service = "set"
        THEN /\ loops' = [loops EXCEPT
                            ![t] = [pc |-> "fetching", k |-> k, cycles |-> cycles]]
             /\ patterns' = store
             /\ history' = Forgotten(h)
        ELSE /\ loops' = [loops EXCEPT
                            ![t] = [pc |-> "sleeping", k |-> 0, cycles |-> cycles]]
             /\ patterns' = KeepRecent(store, now)
             /\ history' = [h EXCEPT !.last = "prune",
                                     !.cutoff = CutoffTime(now),
                                     !.before = store,
                                     !.kept = Len(KeepRecent(store, now)),
                                     !.window = @ \ {t}]

\* initialize(market_data_service)
Initialize ==
    /\ market_data_service = "None"
    /\ market_data_service' = "set"
    /\ history' = Forgotten(history)
    /\ UNCHANGED <<patterns, running, now, loops, recent, aggVars, callVars>>

\* asyncio.create_task(service.start_pattern_detection()): the coroutine
\* is scheduled, its body has not begun.  history.stopped tells whether
\* stop() has been called since the last such invocation.
StartPatternDetection(t) ==
    /\ loops[t].pc = "idle"
    /\ loops' = [loops EXCEPT ![t].pc = "created"]
    /\ history' = [Forgotten(history) EXCEPT !.stopped = FALSE]
    /\ UNCHANGED <<patterns, running, market_data_service, now, recent,
                   aggVars, callVars>>

\* the first step of the task: self.running = True, then into the while loop
LoopBegin(t) ==
    /\ loops[t].pc = "created"
    /\ running' = TRUE
    /\ ContinueCycle(t, 1, patterns, history, TRUE)
    /\ UNCHANGED <<market_data_service, now, recent, aggVars, callVars>>

\* the data source returns the bars of scenario sc to the suspended task:
\* if they are not empty detect_patterns runs and its patterns are appended.
\* notes are the ways the observer may note the call.
FetchReturn(t, sc, notes) ==
    /\ loops[t].pc = "fetching"
    /\ LET k == loops[t].k
           data == SourceBars(sc, now)
           key == <<sc, now, ComboPair(k), ComboTimeframe(k)>>
           found == DetectPatterns(Self, data, ComboPair(k), ComboTimeframe(k))
       IN  IF Len(data) > 0
           THEN \E note \in notes :
                   /\ note = "ref" => history.ref = NoCall
                   /\ ContinueCycle(t, k + 1, patterns \o found,
                          [Recorded(key, found, note) EXCEPT
                              !.last = "append", !.before = <<>>,
                              !.window = @ \cup {t}],
                          FALSE)
           ELSE ContinueCycle(t, k + 1, patterns, history, FALSE)
    /\ UNCHANGED <<running, market_data_service, now, recent, aggVars, callVars>>

\* the exception leaves the while loop: a try around the loop, not in it
FetchRaiseEndsLoop(t) ==
    /\ loops[t].pc = "fetching"
    /\ loops' = [loops EXCEPT ![t].pc = "done", ![t].k = 0]
    /\ history' = [Forgotten(history) EXCEPT !.window = @ \ {t}]
    /\ UNCHANGED <<patterns, running, market_data_service, now, recent,
                   aggVars, callVars>>

\* the data source (or a detector) raises: the except clause of the loop
\* prints and the task suspends in sleep(60), the prune skipped
FetchRaise(t) ==
    /\ loops[t].pc = "fetching"
    /\ loops' = [loops EXCEPT ![t].pc = "backoff", ![t].k = 0]
    /\ history' = [Forgotten(history) EXCEPT !.window = @ \ {t}]
    /\ UNCHANGED <<patterns, running, market_data_service, now, recent,
                   aggVars, callVars>>

\* a sleep is over: the while condition is tested again
Wake(t) ==
    /\ loops[t].pc \in {"sleeping", "backoff"}
    /\ IF running
       THEN /\ loops[t].cycles < MaxCycles
            /\ ContinueCycle(t, 1, patterns, history, TRUE)
            /\ UNCHANGED running
       ELSE /\ loops' = [loops EXCEPT ![t].pc = "done"]
            /\ history' = Forgotten(history)
            /\ UNCHANGED <<patterns, running>>
    /\ UNCHANGED <<market_data_service, now, recent, aggVars, callVars>>

\* stop(): self.running = False, whatever it was (a second call in a row
\* changes nothing and is left out)
Stop ==
    /\ running \/ ~history.stopped
    /\ running' = FALSE
    /\ history' = [Forgotten(history) EXCEPT !.stopped = TRUE]
    /\ UNCHANGED <<patterns, market_data_service, now, loops, recent,
                   aggVars, callVars>>

\* no get_recent_patterns call is returning
NoRead ==
    [limit |-> -1, result |-> <<>>]

\* a reader calls get_recent_patterns(limit); GET /api/smc-signals passes 50.
\* The function is synchronous: recent holds what it returns until the
\* caller has taken it, and nothing else runs in between.
GetRecentPatterns(limit) ==
    /\ recent = NoRead
    /\ recent' = [limit |-> limit, result |-> RecentPatterns(patterns, limit)]
    /\ UNCHANGED <<patterns, running, market_data_service, now, loops, history,
                   aggVars, callVars>>

\* return patterns: the caller has the list
ReturnRecent ==
    /\ recent # NoRead
    /\ recent' = NoRead
    /\ UNCHANGED <<patterns, running, market_data_service, now, loops, history,
                   aggVars, callVars>>

\* POST /api/smc-analysis: detect_patterns runs on freshly fetched bars,
\* outside the loop, with the default timeframe label; the store is not
\* touched
RunSmcAnalysis(sc, notes) ==
    /\ Len(sc) > 0
    /\ LET key == <<sc, now, "EURUSD", "1h">>
           found == DetectPatterns(Self, SourceBars(sc, now), "EURUSD", "1h")
       IN  \E note \in notes :
              /\ note = "ref" => history.ref = NoCall
              /\ history' = Recorded(key, found, note)
    /\ UNCHANGED <<patterns, running, market_data_service, now, loops, recent,
                   aggVars, callVars>>

\* twenty hours pass
Tick ==
    /\ now < 20 * MaxTicks
    /\ now' = now + 20
    /\ history' = Forgotten(history)
    /\ UNCHANGED <<patterns, running, market_data_service, loops, recent,
                   aggVars, callVars>>

-----------------------------------------------------------------------------
(* Specifications *)

IdleAggregator ==
    /\ models = <<>>
    /\ decision = NotCalled

IdleCall ==
    /\ historical_data = <<>>
    /\ callee = "none"
    /\ detected = <<>>
    /\ frame = <<>>

\* a service that is not running, its store holding store, the clock at 0;
\* ids names the start_pattern_detection tasks that may be created on it
ServiceHolding(store, ids) ==
    /\ patterns = store
    /\ running = FALSE
    /\ market_data_service = "None"
    /\ now = 0
    /\ loops = [t \in ids |-> [pc |-> "idle", k |-> 0, cycles |-> 0]]
    /\ recent = NoRead
    /\ history = [last |-> "none", cutoff |-> 0, before |-> <<>>,
                  kept |-> Len(store), stopped |-> FALSE,
                  ref |-> NoCall, lastCall |-> NoCall, window |-> {}]

\* the service as __init__ leaves it
IdleServiceWith(ids) ==
    ServiceHolding(<<>>, ids)

IdleService ==
    IdleServiceWith({})

\* a pattern an earlier detection left in the store
StoredPattern ==
    SMCPattern("FVG", "BULLISH", RInt(10010), R(9, 10), "1h", 2, "EURUSD")

\* the stores a direct call on a list with this motif is tried with: the
\* empty one, and for the curated motifs also one holding a pattern
StoresTried(motif) ==
    IF motif \in CuratedMotifs THEN {<<>>, <<StoredPattern>>} ELSE {<<>>}

LoopIds ==
    DOMAIN loops

\* the service with the one loop task the application creates, its readers
\* and the clock
Init ==
    /\ IdleServiceWith({1})
    /\ IdleAggregator
    /\ IdleCall

Next ==
    \/ recent = NoRead /\ Initialize
    \/ recent = NoRead /\ \E t \in LoopIds : StartPatternDetection(t)
    \/ recent = NoRead /\ \E t \in LoopIds : LoopBegin(t)
    \/ recent = NoRead /\ \E t \in LoopIds, sc \in Scenarios :
                              FetchReturn(t, sc, {"skip"})
    \/ recent = NoRead /\ \E t \in LoopIds : FetchRaise(t)
    \/ recent = NoRead /\ \E t \in LoopIds : Wake(t)
    \/ recent = NoRead /\ Stop
    \/ recent = NoRead /\ Tick
    \/ \E limit \in 0..MaxLimit \cup {DefaultLimit} : GetRecentPatterns(limit)
    \/ ReturnRecent

Spec ==
    Init /\ [][Next]_vars

\* detect_patterns called by the loop and by the analysis endpoint while the
\* store changes underneath, the clock standing still so that the same bars
\* come back; the observer notes every call and picks any one call as the
\* reference call
NextDetect ==
    \/ Initialize
    \/ \E t \in LoopIds : StartPatternDetection(t)
    \/ \E t \in LoopIds : LoopBegin(t)
    \/ \E t \in LoopIds, sc \in Scenarios :
          FetchReturn(t, sc, {"ref", "last"})
    \/ \E t \in LoopIds : Wake(t)
    \/ \E sc \in Scenarios : RunSmcAnalysis(sc, {"ref", "last"})

SpecDetect ==
    Init /\ [][NextDetect]_vars

\* two start_pattern_detection tasks created on the same service: each
\* suspends in every call of the data source and in every sleep, and the
\* other, or GET /api/smc-signals reading the store, may run then
InitLoops ==
    /\ IdleServiceWith({1, 2})
    /\ IdleAggregator
    /\ IdleCall

NextLoops ==
    \/ recent = NoRead /\ Initialize
    \/ recent = NoRead /\ \E t \in LoopIds : StartPatternDetection(t)
    \/ recent = NoRead /\ \E t \in LoopIds : LoopBegin(t)
    \/ recent = NoRead /\ \E t \in LoopIds, sc \in Scenarios :
                              FetchReturn(t, sc, {"skip"})
    \/ recent = NoRead /\ \E t \in LoopIds : FetchRaise(t)
    \/ recent = NoRead /\ \E t \in LoopIds : Wake(t)
    \/ recent = NoRead /\ Stop
    \/ GetRecentPatterns(DefaultLimit)
    \/ ReturnRecent

SpecLoops ==
    InitLoops /\ [][NextLoops]_vars

\* the dict-based sweep detector on every candle list of its family: 20
\* candles (none scanned), or a few more
InitDict ==
    /\ \E n \in {20, 21, 23}, k \in 0..MaxTail :
          \E tail \in TailsOfLen(k) :
             historical_data = Candles(n, tail)
    /\ callee = "none"
    /\ detected = <<>>
    /\ frame = <<>>
    /\ IdleAggregator
    /\ IdleService

NextDict ==
    CallDictLiquiditySweeps

SpecDict ==
    InitDict /\ [][NextDict]_vars

\* the aggregator applied to every small dict of models
InitAgg ==
    /\ models \in ModelLists(MaxModels)
    /\ decision = NotCalled
    /\ IdleCall
    /\ IdleService

NextAgg ==
    PredictPatternsCall

SpecAgg ==
    InitAgg /\ [][NextAgg]_vars

\* one direct call of a detector entry point on every bar list of the family
InitCall ==
    /\ \E n \in Lengths, order \in {"oldest_first", "newest_first"} :
          \E off \in Offsets(n), motif \in Motifs(n) :
             /\ off + Len(motif) <= n
             /\ historical_data = Bars(n, off, motif, order)
             /\ \E store \in StoresTried(motif) : ServiceHolding(store, {})
    /\ callee = "none"
    /\ detected = <<>>
    /\ frame = <<>>
    /\ IdleAggregator

NextCall ==
    \/ CallDetectPatterns
    \/ CallDetectBosPatterns
    \/ CallDetectFvgPatterns

SpecCall ==
    InitCall /\ [][NextCall]_vars

-----------------------------------------------------------------------------
(* Properties of the ensemble aggregator, under SpecAgg.  They are stated  *)
(* on the models the service holds, not on the aggregator's own lists.     *)

Called ==
    decision # NotCalled

\* the models whose prediction reaches the vote, in the order of self.models
Contributors ==
    SelectSeq(models, LAMBDA m : m.trained /\ m.outcome.kind = "ok")

\* the sum of confidence x accuracy over the first k of the contributors cs
\* whose field (pattern_type or direction) is key
RECURSIVE TallyOf(_, _, _, _)
TallyOf(cs, field, key, k) ==
    IF k = 0 THEN Zero
    ELSE RAdd(TallyOf(cs, field, key, k - 1),
              IF cs[k].outcome[field] = key
              THEN RMul(cs[k].outcome.confidence,
                        cs[k].accuracy)
              ELSE Zero)

Tally(cs, field, key) ==
    TallyOf(cs, field, key, Len(cs))

KeysOf(cs, field) ==
    {cs[k].outcome[field] : k \in 1..Len(cs)}

FirstSeen(cs, field, key) ==
    CHOOSE k \in 1..Len(cs) :
        /\ cs[k].outcome[field] = key
        /\ \A j \in 1..(k - 1) : cs[j].outcome[field] # key

IsMaximal(cs, field, key) ==
    \A other \in KeysOf(cs, field) :
        RLe(Tally(cs, field, other), Tally(cs, field, key))

\* C2: with at least one contributing prediction, the returned pattern_type
\* is a key of the pattern_type tally and the returned direction a key of the
\* direction tally, each tally being the sum of confidence x accuracy over
\* the predictions with that key, and no other key of the same tally has a
\* larger sum.
WinnersHaveMaximalTally ==
    LET cs == Contributors
    IN
        (Called /\ cs # <<>>) =>
            /\ decision.pattern_type \in KeysOf(cs, "pattern_type")
            /\ IsMaximal(cs, "pattern_type", decision.pattern_type)
            /\ decision.direction \in KeysOf(cs, "direction")
            /\ IsMaximal(cs, "direction", decision.direction)

\* a call in which the accuracies decide: the winner by weighted tally is
\* not the key with the largest sum of raw confidences
RECURSIVE RawTallyOf(_, _, _, _)
RawTallyOf(cs, field, key, k) ==
    IF k = 0 THEN Zero
    ELSE RAdd(RawTallyOf(cs, field, key, k - 1),
              IF cs[k].outcome[field] = key
              THEN cs[k].outcome.confidence ELSE Zero)

WinnersHaveMaximalTallyWitness ==
    LET cs == Contributors
    IN
        /\ Called
        /\ Cardinality(KeysOf(cs, "pattern_type")) = 2
        /\ Cardinality(KeysOf(cs, "direction")) = 2
        /\ \E other \in KeysOf(cs, "pattern_type") :
              /\ RLt(Tally(cs, "pattern_type", other),
                     Tally(cs, "pattern_type", decision.pattern_type))
              /\ RLt(RawTallyOf(cs, "pattern_type", decision.pattern_type,
                                Len(cs)),
                     RawTallyOf(cs, "pattern_type", other, Len(cs)))

\* C3: when several pattern_types (or several directions) share the maximal
\* tally, the returned one is the one whose first contributing prediction
\* comes earliest in the order of the models.
FirstSeenWinsTies ==
    LET cs == Contributors
    IN
        (Called /\ cs # <<>>) =>
            /\ \A key \in KeysOf(cs, "pattern_type") :
                  IsMaximal(cs, "pattern_type", key) =>
                     FirstSeen(cs, "pattern_type", decision.pattern_type)
                        <= FirstSeen(cs, "pattern_type", key)
            /\ \A key \in KeysOf(cs, "direction") :
                  IsMaximal(cs, "direction", key) =>
                     FirstSeen(cs, "direction", decision.direction)
                        <= FirstSeen(cs, "direction", key)

\* a tie between two pattern_types in which the key seen first reaches its
\* tally last
FirstSeenWinsTiesWitness ==
    LET cs == Contributors
    IN
        /\ Called
        /\ Len(cs) = 3
        /\ cs[1].outcome.pattern_type = decision.pattern_type
        /\ cs[2].outcome.pattern_type # decision.pattern_type
        /\ cs[3].outcome.pattern_type = decision.pattern_type
        /\ Tally(cs, "pattern_type", cs[2].outcome.pattern_type)
              = Tally(cs, "pattern_type", decision.pattern_type)

\* C4: when no prediction contributes (no model, no trained model, or every
\* trained model's prediction returning None or raising) the call returns
\* the decision UNKNOWN / NEUTRAL with confidence 0.0.
NoContributionGivesSentinel ==
    LET cs == Contributors
    IN
        (Called /\ cs = <<>>) =>
            /\ decision.pattern_type = "UNKNOWN"
            /\ decision.direction = "NEUTRAL"
            /\ decision.confidence = Zero

\* the sentinel returned although there are models: one untrained that would
\* have answered, one returning None, one raising
NoContributionGivesSentinelWitness ==
    /\ Called
    /\ decision.pattern_type = "UNKNOWN"
    /\ \E a, b, c \in 1..Len(models) :
          /\ ~models[a].trained /\ models[a].outcome.kind = "ok"
          /\ models[b].trained /\ models[b].outcome.kind = "None"
          /\ models[c].trained /\ models[c].outcome.kind = "raise"

RECURSIVE RawConfidenceSum(_, _)
RawConfidenceSum(cs, k) ==
    IF k = 0 THEN Zero
    ELSE RAdd(RawConfidenceSum(cs, k - 1), cs[k].outcome.confidence)

\* C5: with at least one contributing prediction, the decision's confidence
\* times the number of contributors equals the sum of their raw confidences
\* (the unweighted mean), and it lies in [0, 1].
ConfidenceIsUnweightedMean ==
    LET cs == Contributors
    IN
        (Called /\ cs # <<>>) =>
            /\ RMul(decision.confidence, RInt(Len(cs)))
                  = RawConfidenceSum(cs, Len(cs))
            /\ RLe(Zero, decision.confidence)
            /\ RLe(decision.confidence, One)

\* a mean strictly between the confidences, of predictions whose accuracies
\* are not all 1 and which disagree on the pattern_type
ConfidenceIsUnweightedMeanWitness ==
    LET cs == Contributors
    IN
        /\ Called
        /\ Len(cs) = 3
        /\ decision.confidence = R(2, 3)
        /\ \E k \in 1..3 : cs[k].accuracy # One
        /\ Cardinality(KeysOf(cs, "pattern_type")) = 2

\* some contributor made the prediction (pattern_type, direction)
Predicted(pattern_type, direction) ==
    \E k \in 1..Len(Contributors) :
        /\ Contributors[k].outcome.pattern_type = pattern_type
        /\ Contributors[k].outcome.direction = direction

\* C28 as stated: with at least one contributing prediction, some
\* contributing prediction has both the returned pattern_type and the
\* returned direction.
DecisionIsOnePrediction ==
    (Called /\ Contributors # <<>>) =>
        Predicted(decision.pattern_type, decision.direction)

\* C28, amended: with at least one contributing prediction, some
\* contributing prediction has the returned pattern_type and some
\* contributing prediction, not always the same one, has the returned
\* direction.
DecisionIsMadeOfPredictions ==
    (Called /\ Contributors # <<>>) =>
        /\ \E k \in 1..Len(Contributors) :
              Contributors[k].outcome.pattern_type = decision.pattern_type
        /\ \E k \in 1..Len(Contributors) :
              Contributors[k].outcome.direction = decision.direction

\* a decision whose pattern_type and direction no single contributor
\* predicted together
DecisionIsMadeOfPredictionsWitness ==
    /\ Called
    /\ Len(Contributors) = 3
    /\ ~Predicted(decision.pattern_type, decision.direction)

-----------------------------------------------------------------------------
(* Properties of the detectors, under SpecCall.  Bar k of the list carries *)
(* timestamp k, so ChronBar(i) is the bar at index i of the Bar Sequence.  *)

ChronBar(i) ==
    historical_data[CHOOSE k \in 1..Len(historical_data) :
                        historical_data[k].timestamp = i]

PatternsOfType(type) ==
    SelectSeq(detected, LAMBDA p : p.type = type)

\* C1: every pattern a detector call returns has 0 <= confidence <= 1.
ConfidenceInUnitInterval ==
    \A j \in 1..Len(detected) :
        /\ RLe(Zero, detected[j].confidence)
        /\ RLe(detected[j].confidence, One)

\* detect_patterns returning a trend change whose confidence the cap brought
\* down to 1, next to patterns of other detectors
ConfidenceInUnitIntervalWitness ==
    /\ callee = "detect_patterns"
    /\ \E j \in 1..Len(detected) :
          detected[j].type = "CHoCH" /\ detected[j].confidence = One
    /\ \E j \in 1..Len(detected) :
          detected[j].type = "BOS" /\ detected[j].confidence = R(19, 20)
    /\ PatternsOfType("LS") # <<>>

\* the frame detect_patterns hands to its detectors
SortedFrame ==
    SortValues(DataFrame(historical_data))

\* C9: detect_patterns on fewer than 20 bars (or none) returns the empty
\* list; on 20 to 50 bars the trend detector contributes nothing and the
\* result is what the four other detectors return, in the order BOS, FVG,
\* OB, LS.
InsufficientDataIsNotAFailure ==
    callee = "detect_patterns" =>
        /\ Len(historical_data) < 20 => detected = <<>>
        /\ (20 <= Len(historical_data) /\ Len(historical_data) <= 50) =>
              /\ PatternsOfType("CHoCH") = <<>>
              /\ detected = DetectBosPatterns(SortedFrame, "EURUSD", "1h")
                            \o DetectFvgPatterns(SortedFrame, "EURUSD", "1h")
                            \o DetectOrderBlocks(SortedFrame, "EURUSD", "1h")
                            \o DetectLiquiditySweeps(SortedFrame, "EURUSD", "1h")

\* 20 bars, too few for the trend detector, on which two other detectors
\* find a pattern
InsufficientDataIsNotAFailureWitness ==
    /\ callee = "detect_patterns"
    /\ Len(historical_data) = 20
    /\ PatternsOfType("BOS") # <<>>
    /\ PatternsOfType("FVG") # <<>>

\* the bullish gap condition on the triple ending at index i, in pips:
\* (low[i-1] - high[i-2]) / high[i-2] > 0.0005 cross-multiplied
BullishGapCondition(i) ==
    /\ ChronBar(i - 1).low > ChronBar(i - 2).high
    /\ ChronBar(i).low < ChronBar(i - 1).high
    /\ (ChronBar(i - 1).low - ChronBar(i - 2).high) * 10000
          > 5 * ChronBar(i - 2).high

\* min(ratio x 1000, 0.9) for the triple ending at index i
BullishGapConfidence(i) ==
    LET gap == ChronBar(i - 1).low - ChronBar(i - 2).high
    IN  IF gap * 1000 * 10 >= 9 * ChronBar(i - 2).high
        THEN R(9, 10)
        ELSE R(gap * 1000, ChronBar(i - 2).high)

BullishGapsAt(i) ==
    {j \in 1..Len(detected) :
        /\ detected[j].type = "FVG"
        /\ detected[j].direction = "BULLISH"
        /\ detected[j].timestamp = i}

GapDetectorRan ==
    \/ callee = "_detect_fvg_patterns"
    \/ callee = "detect_patterns" /\ Len(historical_data) >= 20

IsGapExample ==
    /\ Len(historical_data) = 3
    /\ ChronBar(0).high = 10000
    /\ ChronBar(1).low = 10020
    /\ ChronBar(2).low = 10010

\* C10: the Gap Detector returns a BULLISH FVG for the triple ending at index
\* i >= 2 exactly when low[i-1] > high[i-2], low[i] < high[i-1] and the gap
\* ratio exceeds 0.0005, one pattern per triple, with price the midpoint of
\* high[i-2] and low[i-1] (in pips) and confidence min(ratio x 1000, 0.9);
\* on the three bars with high 1.0000, low 1.0020, low 1.0010 it returns
\* exactly one pattern, BULLISH, at 1.0010 with confidence 0.9.
BullishGapExactlyWhenUnfilledAndWide ==
    GapDetectorRan =>
        /\ \A i \in 0..(Len(historical_data) - 1) :
              IF i >= 2 /\ BullishGapCondition(i)
              THEN /\ Cardinality(BullishGapsAt(i)) = 1
                   /\ \A j \in BullishGapsAt(i) :
                         /\ detected[j].price
                               = R(ChronBar(i - 2).high + ChronBar(i - 1).low, 2)
                         /\ detected[j].confidence = BullishGapConfidence(i)
              ELSE BullishGapsAt(i) = {}
        /\ (IsGapExample /\ callee = "_detect_fvg_patterns") =>
              /\ Len(detected) = 1
              /\ detected[1].type = "FVG"
              /\ detected[1].direction = "BULLISH"
              /\ detected[1].price = RInt(10010)
              /\ detected[1].confidence = R(9, 10)

\* the Gap Detector called on the three bars of the example
BullishGapExactlyWhenUnfilledAndWideWitness ==
    /\ callee = "_detect_fvg_patterns"
    /\ IsGapExample
    /\ detected # <<>>

\* the patterns of one type and direction stamped with the time of bar i
PatternsAt(type, direction, i) ==
    {j \in 1..Len(detected) :
        /\ detected[j].type = type
        /\ detected[j].direction = direction
        /\ detected[j].timestamp = i}

DetectPatternsRan ==
    callee = "detect_patterns" /\ Len(historical_data) >= 20

\* bar i has at least 5 bars after it
HasFiveAfter(i) ==
    i + 5 <= Len(historical_data) - 1

\* high[i] exceeds the maximum high of bars i-10 .. i-1
SweepsHighs(i) ==
    \A j \in (i - 10)..(i - 1) : ChronBar(i).high > ChronBar(j).high

\* low[i] is below the minimum low of bars i-10 .. i-1
SweepsLows(i) ==
    \A j \in (i - 10)..(i - 1) : ChronBar(i).low < ChronBar(j).low

\* how many of the closes of bars i+1 .. i+5 are below / above close[i]
ClosesBelow(i) ==
    Cardinality({j \in (i + 1)..(i + 5) : ChronBar(j).close < ChronBar(i).close})

ClosesAbove(i) ==
    Cardinality({j \in (i + 1)..(i + 5) : ChronBar(j).close > ChronBar(i).close})

\* min(k/5, 0.85)
SweepConfidence(k) ==
    IF k * 100 > 85 * 5 THEN R(85, 100) ELSE R(k, 5)

\* C11: for every bar i >= 15 with at least 5 bars after it, if high[i]
\* exceeds the maximum high of bars i-10 .. i-1 and k >= 3 of the closes of
\* bars i+1 .. i+5 are below close[i], detect_patterns returns a BEARISH LS
\* stamped with bar i, priced at high[i], with confidence min(k/5, 0.85),
\* which is 0.6 when k = 3.
HighSweepGivesBearishLs ==
    DetectPatternsRan =>
        \A i \in 15..(Len(historical_data) - 1) :
            (HasFiveAfter(i) /\ SweepsHighs(i) /\ ClosesBelow(i) >= 3) =>
                /\ PatternsAt("LS", "BEARISH", i) # {}
                /\ \A j \in PatternsAt("LS", "BEARISH", i) :
                      /\ detected[j].price = RInt(ChronBar(i).high)
                      /\ detected[j].confidence = SweepConfidence(ClosesBelow(i))
                      /\ ClosesBelow(i) = 3 => detected[j].confidence = R(6, 10)

\* a sweep confirmed by exactly three of the five closes, returned with
\* confidence 0.6
HighSweepGivesBearishLsWitness ==
    /\ DetectPatternsRan
    /\ \E i \in 15..(Len(historical_data) - 1) :
          /\ HasFiveAfter(i) /\ SweepsHighs(i) /\ ClosesBelow(i) = 3
          /\ \E j \in PatternsAt("LS", "BEARISH", i) :
                detected[j].confidence = R(3, 5)

\* the call has assigned the swing columns to the frame
SwingColumnsAssigned ==
    /\ callee \in {"_detect_bos_patterns", "detect_patterns"}
    /\ Len(frame) >= 10

\* high[i] is strictly greater than the highs of the four other bars of
\* [i-2, i+2], for 2 <= i < n-2; the same with lows
StrictSwingHigh(i) ==
    /\ 2 <= i
    /\ i < Len(frame) - 2
    /\ \A j \in ((i - 2)..(i + 2)) \ {i} : Row(frame, j).high < Row(frame, i).high

StrictSwingLow(i) ==
    /\ 2 <= i
    /\ i < Len(frame) - 2
    /\ \A j \in ((i - 2)..(i + 2)) \ {i} : Row(frame, j).low > Row(frame, i).low

\* C12: bar i is marked a swing HIGH exactly when 2 <= i < n-2 and high[i]
\* is strictly greater than the highs of the four other bars in [i-2, i+2]
\* (a bar that only ties the window maximum is not marked), symmetrically
\* for swing LOW with lows; a frame of fewer than 5 bars has no swing.
SwingsAreStrictExtremes ==
    /\ SwingColumnsAssigned =>
          \A i \in 0..(Len(frame) - 1) :
              /\ Row(frame, i).swing_high <=> StrictSwingHigh(i)
              /\ Row(frame, i).swing_low <=> StrictSwingLow(i)
    /\ (callee \in {"_detect_bos_patterns", "detect_patterns"}
           /\ Len(historical_data) < 5) =>
          \A i \in 0..(Len(frame) - 1) :
              "swing_high" \notin DOMAIN Row(frame, i)

\* what the detector of one type returns on the frame of detect_patterns
OwnResult(type) ==
    IF type = "BOS" THEN DetectBosPatterns(SortedFrame, "EURUSD", "1h")
    ELSE IF type = "CHoCH" THEN DetectChochPatterns(SortedFrame, "EURUSD", "1h")
    ELSE IF type = "FVG" THEN DetectFvgPatterns(SortedFrame, "EURUSD", "1h")
    ELSE IF type = "OB" THEN DetectOrderBlocks(SortedFrame, "EURUSD", "1h")
    ELSE DetectLiquiditySweeps(SortedFrame, "EURUSD", "1h")

\* this step is a call of detect_patterns
DetectPatternsStep ==
    callee = "none" /\ callee' = "detect_patterns"

\* C14: a call of detect_patterns leaves the caller's bar list and the
\* service's stored patterns as they were, and in the list it returns the
\* patterns of each detector are those the detector returned, unaltered by
\* the detectors run after it.
DetectPatternsWritesOnlyItsFrame ==
    [][DetectPatternsStep =>
          /\ historical_data' = historical_data
          /\ patterns' = patterns
          /\ Len(historical_data) >= 20 =>
                \A type \in {"BOS", "CHoCH", "FVG", "OB", "LS"} :
                    PatternsOfType(type)' = OwnResult(type)]_vars

\* detect_patterns has run on a newest-first list while the store held a
\* pattern: the frame is in time order and carries the columns the
\* detectors assigned, the gap and the sweep detector have returned patterns
DetectPatternsWritesOnlyItsFrameWitness ==
    /\ callee = "detect_patterns"
    /\ patterns # <<>>
    /\ Len(frame) >= 20
    /\ historical_data[1].timestamp > historical_data[2].timestamp
    /\ frame[1].timestamp < frame[2].timestamp
    /\ {"swing_high", "ma_20", "equal_highs"} \subseteq DOMAIN frame[1]
    /\ PatternsOfType("FVG") # <<>>
    /\ PatternsOfType("LS") # <<>>

\* the Structure-Break Detector has run
BosDetectorRan ==
    \/ callee = "_detect_bos_patterns"
    \/ DetectPatternsRan

BosOfDirection(direction) ==
    SelectSeq(detected, LAMBDA p : p.type = "BOS" /\ p.direction = direction)

\* C15: one scan returns at most one BULLISH BOS and at most one BEARISH
\* BOS (of several qualifying swing pairs of one direction only the latest
\* is retained).
AtMostOneBosPerDirection ==
    BosDetectorRan =>
        /\ Len(BosOfDirection("BULLISH")) <= 1
        /\ Len(BosOfDirection("BEARISH")) <= 1

\* the positions of the frame marked in column col, in order
Marked(col) ==
    SelectSeq(AsList([k \in 1..Len(frame) |-> k - 1]),
              LAMBDA i : Row(frame, i)[col])

\* the 10-bar relative close change x 100 at bar i of the frame, clamped to
\* [-1, 1]; 0 when fewer than 10 bars precede bar i
MomentumAt(i) ==
    IF i < 10 THEN Zero
    ELSE LET change == R((Row(frame, i).close - Row(frame, i - 10).close) * 100,
                        Row(frame, i - 10).close)
         IN  IF RLt(One, change) THEN One
             ELSE IF RLt(change, RInt(-1)) THEN RInt(-1) ELSE change

\* the BOS patterns of one direction stamped with the time of bar i of the
\* frame
BosAt(direction, i) ==
    PatternsAt("BOS", direction, Row(frame, i).timestamp)

\* C16: for consecutive swing highs a, b with high[b] > high[a], a BULLISH
\* BOS for bar b is returned exactly when the momentum at bar b exceeds 0.6;
\* it is priced at high[b] with confidence min(momentum, 0.95).  The same
\* for consecutive swing lows with low[b] < low[a], momentum below -0.6,
\* price low[b] and confidence min(|momentum|, 0.95).
BosFollowsMomentumAtTheSwing ==
    (BosDetectorRan /\ SwingColumnsAssigned) =>
        LET highs == Marked("swing_high")
            lows == Marked("swing_low")
        IN  /\ \A k \in 1..(Len(highs) - 1) :
                  LET a == highs[k]
                      b == highs[k + 1]
                  IN  Row(frame, b).high > Row(frame, a).high =>
                         /\ BosAt("BULLISH", b) # {}
                               <=> RLt(R(6, 10), MomentumAt(b))
                         /\ \A j \in BosAt("BULLISH", b) :
                               /\ detected[j].price = RInt(Row(frame, b).high)
                               /\ detected[j].confidence
                                     = RMin(MomentumAt(b), R(95, 100))
            /\ \A k \in 1..(Len(lows) - 1) :
                  LET a == lows[k]
                      b == lows[k + 1]
                  IN  Row(frame, b).low < Row(frame, a).low =>
                         /\ BosAt("BEARISH", b) # {}
                               <=> RLt(MomentumAt(b), R(-6, 10))
                         /\ \A j \in BosAt("BEARISH", b) :
                               /\ detected[j].price = RInt(Row(frame, b).low)
                               /\ detected[j].confidence
                                     = RMin(RAbs(MomentumAt(b)), R(95, 100))

\* the sum of the closes of the n bars ending at bar i
RECURSIVE ClosesUpTo(_, _)
ClosesUpTo(i, n) ==
    IF n = 0 THEN 0 ELSE ChronBar(i).close + ClosesUpTo(i - 1, n - 1)

\* the sign of (20-period MA - 50-period MA) at bar i; there is none where
\* fewer than 50 bars end at bar i
SignOfMaDifference(i) ==
    IF i < 49 THEN "undefined"
    ELSE LET d == 50 * ClosesUpTo(i, 20) - 20 * ClosesUpTo(i, 50)
         IN  IF d > 0 THEN "positive" ELSE IF d < 0 THEN "negative" ELSE "zero"

BodyOf(i) ==
    AbsInt(ChronBar(i).close - ChronBar(i).open)

RangeOf(i) ==
    ChronBar(i).high - ChronBar(i).low

LowerWickOf(i) ==
    MinInt(ChronBar(i).open, ChronBar(i).close) - ChronBar(i).low

UpperWickOf(i) ==
    ChronBar(i).high - MaxInt(ChronBar(i).open, ChronBar(i).close)

\* the bars among the next 5 after bar i that exist
NextFive(i) ==
    (i + 1)..MinInt(i + 5, Len(historical_data) - 1)

\* some close of the next 5 bars lies above (below) close[i] by more than
\* permille thousandths of close[i]
RisesBy(i, permille) ==
    \E j \in NextFive(i) :
        (ChronBar(j).close - ChronBar(i).close) * 1000 > permille * ChronBar(i).close

FallsBy(i, permille) ==
    \E j \in NextFive(i) :
        (ChronBar(i).close - ChronBar(j).close) * 1000 > permille * ChronBar(i).close

\* the wick conditions of a bullish (bearish) rejection at bar i
BullishRejection(i) ==
    /\ i >= 5
    /\ RangeOf(i) > 0
    /\ LowerWickOf(i) > 2 * BodyOf(i)
    /\ 10 * LowerWickOf(i) > 6 * RangeOf(i)

BearishRejection(i) ==
    /\ i >= 5
    /\ RangeOf(i) > 0
    /\ UpperWickOf(i) > 2 * BodyOf(i)
    /\ 10 * UpperWickOf(i) > 6 * RangeOf(i)

\* min(wick / range, 0.9)
RejectionConfidence(wick, range) ==
    IF 10 * wick > 9 * range THEN R(9, 10) ELSE R(wick, range)

\* the OB patterns returned for bar i are as stated: present exactly when
\* emitted holds, priced at price with the confidence of the wick
OrderBlockAsStated(direction, i, emitted, price, wick) ==
    /\ PatternsAt("OB", direction, i) # {} <=> emitted
    /\ \A j \in PatternsAt("OB", direction, i) :
          /\ detected[j].price = RInt(price)
          /\ detected[j].confidence = RejectionConfidence(wick, RangeOf(i))

\* C18 as stated: a BULLISH OB is returned for bar i (i >= 5, high > low)
\* exactly when lower_wick > 2 x body, lower_wick > 0.6 x range and within
\* the next 5 bars the close rises above close[i] by more than 30% of
\* close[i], with confidence min(lower_wick / range, 0.9) and price low[i];
\* a BEARISH OB symmetrically with upper_wick, a fall of more than 30% and
\* price high[i].
OrderBlockNeedsThirtyPercentMove ==
    DetectPatternsRan =>
        \A i \in 0..(Len(historical_data) - 1) :
            /\ OrderBlockAsStated("BULLISH", i,
                    BullishRejection(i) /\ RisesBy(i, 300),
                    ChronBar(i).low, LowerWickOf(i))
            /\ OrderBlockAsStated("BEARISH", i,
                    BearishRejection(i) /\ FallsBy(i, 300),
                    ChronBar(i).high, UpperWickOf(i))

\* C18 as amended: the same with a move of more than 0.3% of close[i], for
\* a bar that has at least 5 bars after it.
OrderBlockNeedsThreePermilleMove ==
    DetectPatternsRan =>
        \A i \in 0..(Len(historical_data) - 1) :
            /\ OrderBlockAsStated("BULLISH", i,
                    BullishRejection(i) /\ HasFiveAfter(i) /\ RisesBy(i, 3),
                    ChronBar(i).low, LowerWickOf(i))
            /\ OrderBlockAsStated("BEARISH", i,
                    BearishRejection(i) /\ HasFiveAfter(i) /\ FallsBy(i, 3),
                    ChronBar(i).high, UpperWickOf(i))

\* a BULLISH OB returned for a bar after which the close rises by more than
\* 0.3% but not by more than 30%
OrderBlockNeedsThreePermilleMoveWitness ==
    /\ DetectPatternsRan
    /\ \E i \in 5..(Len(historical_data) - 1) :
          /\ PatternsAt("OB", "BULLISH", i) # {}
          /\ RisesBy(i, 3)
          /\ ~RisesBy(i, 300)

\* C19: for every bar i >= 15 with at least 5 bars after it, whether or not
\* its high exceeds the maximum high of bars i-10 .. i-1, if low[i] is below
\* the minimum low of bars i-10 .. i-1 and k >= 3 of the closes of bars
\* i+1 .. i+5 are above close[i], a BULLISH LS stamped with bar i is
\* returned, priced at low[i], with confidence min(k/5, 0.85).
LowSweepGivesBullishLs ==
    DetectPatternsRan =>
        \A i \in 15..(Len(historical_data) - 1) :
            (HasFiveAfter(i) /\ SweepsLows(i) /\ ClosesAbove(i) >= 3) =>
                /\ PatternsAt("LS", "BULLISH", i) # {}
                /\ \A j \in PatternsAt("LS", "BULLISH", i) :
                      /\ detected[j].price = RInt(ChronBar(i).low)
                      /\ detected[j].confidence = SweepConfidence(ClosesAbove(i))

\* C20: every OB and every LS returned is stamped with a bar that has at
\* least 5 bars after it, so none of the last 5 bars of a list gives one,
\* and a list of exactly 20 bars gives no LS.
ConfirmationNeedsFiveBars ==
    DetectPatternsRan =>
        /\ \A j \in 1..Len(detected) :
              detected[j].type \in {"OB", "LS"} =>
                  HasFiveAfter(detected[j].timestamp)
        /\ Len(historical_data) = 20 => PatternsOfType("LS") = <<>>

\* 20 bars whose bar 15 rejects and sweeps the lows and is followed by 4
\* bars, 3 of them closing more than 0.3% higher: neither OB nor LS
ConfirmationNeedsFiveBarsWitness ==
    /\ DetectPatternsRan
    /\ Len(historical_data) = 20
    /\ BullishRejection(15)
    /\ RisesBy(15, 3)
    /\ SweepsLows(15)
    /\ Cardinality({j \in NextFive(15) :
                       ChronBar(j).close > ChronBar(15).close}) = 3
    /\ PatternsOfType("OB") = <<>>
    /\ PatternsOfType("LS") = <<>>

\* the places in the returned list of the patterns of one type stamped with
\* bar i
StampedAt(type, i) ==
    {j \in 1..Len(detected) :
        detected[j].type = type /\ detected[j].timestamp = i}

\* C21: on bars with low <= min(open, close) <= max(open, close) <= high a
\* call returns at most one FVG for the triple ending at any bar, at most one
\* OB for any bar and at most one LS for any bar.
AtMostOnePatternPerTrigger ==
    DetectPatternsRan =>
        \A i \in 0..(Len(historical_data) - 1) :
            \A type \in {"FVG", "OB", "LS"} :
                Cardinality(StampedAt(type, i)) <= 1

\* a call that returns a gap, an order block and a sweep
AtMostOnePatternPerTriggerWitness ==
    /\ DetectPatternsRan
    /\ PatternsOfType("FVG") # <<>>
    /\ PatternsOfType("OB") # <<>>
    /\ PatternsOfType("LS") # <<>>

\* the caps the detectors pass to min(): 0.95, 0.9, 0.9 and 0.85; the cap
\* of CHoCH is the one the statement at hand gives it
CapOf(type, choch_cap) ==
    CASE type = "BOS" -> R(19, 20)
      [] type = "FVG" -> R(9, 10)
      [] type = "OB" -> R(9, 10)
      [] type = "LS" -> R(85, 100)
      [] type = "CHoCH" -> choch_cap

\* every returned pattern has a confidence between 0 and the cap of its type
ConfidenceWithinCaps(choch_cap) ==
    \A j \in 1..Len(detected) :
        /\ RLe(Zero, detected[j].confidence)
        /\ RLe(detected[j].confidence, CapOf(detected[j].type, choch_cap))

\* C22 as stated: the confidence of every returned pattern is at least 0 and
\* at most the cap of its detector, 0.95 for BOS, 0.9 for FVG and OB, 0.85
\* for LS, and for CHoCH at most the largest of these caps, 0.95.
ConfidenceCappedBelowOne ==
    ConfidenceWithinCaps(R(19, 20))

\* C22, amended: the confidence of every returned pattern is at least 0 and
\* at most the cap of its detector, 0.95 for BOS, 0.9 for FVG and OB, 0.85
\* for LS, and 1.0 for CHoCH.
ConfidenceCappedPerDetector ==
    ConfidenceWithinCaps(One)

\* a call that returns a CHoCH of confidence above 0.95 and a sweep whose
\* five following closes all reverse, reported at the cap 0.85
ConfidenceCappedPerDetectorWitness ==
    /\ DetectPatternsRan
    /\ \E j \in 1..Len(detected) :
          /\ detected[j].type = "CHoCH"
          /\ RLt(R(19, 20), detected[j].confidence)
    /\ \E j \in 1..Len(detected) :
          /\ detected[j].type = "LS"
          /\ detected[j].confidence = R(85, 100)
          /\ CheckReversalStrength(SortValues(DataFrame(historical_data)),
                                   detected[j].timestamp,
                                   IF detected[j].direction = "BULLISH"
                                   THEN "up" ELSE "down") = One

\* C29: every CHoCH returned is stamped with a bar i at which, and 10 bars
\* before which, the difference of the two moving averages exists; so none
\* is stamped with a bar from 50 to 58.
ChochComparesDefinedAverages ==
    DetectPatternsRan =>
        \A j \in 1..Len(detected) :
            detected[j].type = "CHoCH" =>
                /\ SignOfMaDifference(detected[j].timestamp) # "undefined"
                /\ SignOfMaDifference(detected[j].timestamp - 10) # "undefined"
                /\ detected[j].timestamp \notin 50..58

-----------------------------------------------------------------------------
(* Properties of the pattern store, under Spec *)

\* C6: right after a prune the store holds no pattern stamped before
\* now - 24 h and holds every pattern the store had that is stamped after
\* it; a read that follows the prune with no append in between returns no
\* pattern stamped before that cutoff.
PruneKeepsExactlyTheRecent ==
    /\ history.last = "prune" =>
          SelectSeq(patterns, LAMBDA p : p.timestamp > history.cutoff)
             = SelectSeq(history.before,
                         LAMBDA p : p.timestamp > history.cutoff)
    /\ history.last \in {"prune", "pruned"} =>
          /\ \A j \in 1..Len(patterns) :
                ~(patterns[j].timestamp < history.cutoff)
          /\ \A j \in 1..Len(recent.result) :
                ~(recent.result[j].timestamp[2] < history.cutoff)

\* a prune that dropped patterns and kept others, and a read of what it left
PruneKeepsExactlyTheRecentWitness ==
    /\ history.last = "prune"
    /\ patterns # <<>>
    /\ \E j \in 1..Len(history.before) :
          history.before[j].timestamp < history.cutoff
    /\ recent.result # <<>>

\* the dict d renders the stored pattern p
Renders(d, p) ==
    /\ d.type = p.type
    /\ d.direction = p.direction
    /\ d.price = p.price
    /\ d.confidence = p.confidence
    /\ d.timeframe = p.timeframe
    /\ d.pair = p.pair
    /\ d.timestamp[2] = p.timestamp

\* C7: get_recent_patterns(limit), limit >= 0, returns min(limit, store
\* size) dicts in non-increasing timestamp order; each renders stored
\* patterns, no more often than the store holds them, and every stored
\* pattern newer than a returned one is returned.
RecentPatternsAreTheNewest ==
    recent # NoRead =>
        LET result == recent.result
        IN  /\ Len(result) = (IF recent.limit < Len(patterns)
                              THEN recent.limit ELSE Len(patterns))
            /\ \A k \in 1..(Len(result) - 1) :
                  result[k].timestamp[2] >= result[k + 1].timestamp[2]
            /\ \A k \in 1..Len(result) :
                  Cardinality({j \in 1..Len(result) : result[j] = result[k]})
                     <= Cardinality({j \in 1..Len(patterns) :
                                        Renders(result[k], patterns[j])})
            /\ \A k \in 1..Len(result) :
                  Cardinality({j \in 1..Len(patterns) :
                      patterns[j].timestamp > result[k].timestamp[2]})
                     = Cardinality({j \in 1..Len(result) :
                          result[j].timestamp[2] > result[k].timestamp[2]})

\* a read that cut the store short and whose first dict is not the store's
\* first pattern
RecentPatternsAreTheNewestWitness ==
    /\ recent # NoRead
    /\ 0 < recent.limit
    /\ recent.limit < Len(patterns)
    /\ patterns[1].timestamp < recent.result[1].timestamp[2]

\* the default limit returning a store of several timestamps whole
DefaultLimitWitness ==
    /\ recent.limit = DefaultLimit
    /\ Len(recent.result) >= 3
    /\ recent.result[1].timestamp[2]
          > recent.result[Len(recent.result)].timestamp[2]

\* C24 as stated: no read returns a pattern that was stamped before
\* now - 24 h when it was detected.  The clock starts at hour 0, so a
\* pattern stamped before hour -24 was that old whenever it was detected.
ReadsNeverShowStalePatterns ==
    \A k \in 1..Len(recent.result) :
        ~(recent.result[k].timestamp[2] < CutoffTime(0))

\* the patterns appended since the last prune: history.kept is the length
\* the last prune left the store with, and appends go to the end
AppendedSinceLastPrune ==
    SubSeq(patterns, history.kept + 1, Len(patterns))

\* C24, amended: a read returns a pattern stamped before the cutoff of the
\* last prune only if the pattern was appended after that prune; so a
\* pattern that is stamped before now - 24 h when it is detected can be
\* read until the next prune runs, and never after it.
StalePatternsAreReadOnlyUntilThePrune ==
    \A k \in 1..Len(recent.result) :
        recent.result[k].timestamp[2] < history.cutoff =>
            \E j \in 1..Len(AppendedSinceLastPrune) :
                Renders(recent.result[k], AppendedSinceLastPrune[j])

\* a read, made while a later cycle is between its appends and its prune,
\* that returns a pattern stamped before the cutoff of the prune that ended
\* the cycle before, which kept patterns and dropped one so stamped
StalePatternsAreReadOnlyUntilThePruneWitness ==
    /\ history.last = "append"
    /\ history.kept > 0
    /\ \E k \in 1..Len(recent.result) :
          /\ recent.result[k].timestamp[2] < history.cutoff
          /\ recent.result[k].timestamp[2] < CutoffTime(0)

\* patterns a and b agree on what identifies a pattern
SamePattern(a, b) ==
    /\ a.pair = b.pair
    /\ a.timeframe = b.timeframe
    /\ a.type = b.type
    /\ a.direction = b.direction
    /\ a.price = b.price
    /\ a.timestamp = b.timestamp

\* C25: the store never holds two patterns that agree on pair, timeframe,
\* type, direction, price and timestamp.
StoreHoldsNoDuplicates ==
    \A i, j \in 1..Len(patterns) :
        i # j => ~SamePattern(patterns[i], patterns[j])

\* this step is a call of the data source, or the detection that follows
\* it, raising in task t
Raises(t) ==
    loops[t].pc = "fetching" /\ loops'[t].pc = "backoff"

\* this step takes a pattern out of the store
Drops ==
    \E j \in 1..Len(patterns) :
        Cardinality({i \in 1..Len(patterns') : patterns'[i] = patterns[j]})
           < Cardinality({i \in 1..Len(patterns) : patterns[i] = patterns[j]})

\* C26: an exception in the middle of a cycle leaves the store as the
\* appends of that cycle made it, with no prune; the task then pauses and,
\* unless stop() was called meanwhile, begins another cycle: a task ends
\* only at a while test that finds running false.  Patterns leave the store
\* only in the prune that completes a cycle.
RaiseSkipsThePruneAndRetries ==
    [][\A t \in LoopIds :
          /\ Raises(t) => patterns' = patterns
          /\ loops[t].pc = "backoff" /\ loops'[t] # loops[t] /\ running =>
                /\ loops'[t].pc \in {"fetching", "sleeping"}
                /\ loops'[t].cycles = loops[t].cycles + 1
          /\ loops[t].pc # "done" /\ loops'[t].pc = "done" =>
                ~running /\ loops[t].pc \in {"sleeping", "backoff"}
          /\ Drops /\ loops'[t] # loops[t] =>
                history'.last = "prune" /\ loops'[t].pc = "sleeping"]_vars

\* a task pausing after an exception that followed an append of its cycle,
\* the store still holding a pattern stamped before now - 24 h
RaiseSkipsThePruneAndRetriesWitness ==
    \E t \in LoopIds :
        /\ loops[t].pc = "backoff"
        /\ history.last = "append"
        /\ \E j \in 1..Len(patterns) : patterns[j].timestamp < CutoffTime(now)

\* this step is task t testing the while condition: in its first step, or
\* when a sleep is over
TestsWhile(t) ==
    /\ loops[t].pc \in {"created", "sleeping", "backoff"}
    /\ loops'[t] # loops[t]

\* C27: once stop() has been called, with no start_pattern_detection
\* invoked after it, every while test of the loop task leaves the loop, be
\* it the test of the task's first step or the test after a sleep.
StopEndsTheLoopAtItsNextTest ==
    [][\A t \in LoopIds :
          history.stopped /\ TestsWhile(t) => loops'[t].pc = "done"]_vars

-----------------------------------------------------------------------------
(* Properties of detect_patterns as the service calls it, under SpecDetect *)

\* C8: two detect_patterns calls on the same bars with the same pair and
\* timeframe return the same list, whatever the store held at either call.
DetectPatternsIsIdempotent ==
    history.ref.key = history.lastCall.key =>
        history.ref.result = history.lastCall.result

\* the same non-empty answer from a call on an empty store and a later call
\* on a store holding at least as many patterns as that answer
DetectPatternsIsIdempotentWitness ==
    /\ history.ref.key # <<>>
    /\ history.ref.key = history.lastCall.key
    /\ history.ref.stored = 0
    /\ history.ref.result # <<>>
    /\ history.lastCall.stored >= Len(history.ref.result)

-----------------------------------------------------------------------------
(* Properties of concurrent detection loops, under SpecLoops.              *)
(* history.window holds the tasks that have appended in their cycle and    *)
(* have not pruned yet (a cycle that an exception ends leaves it too).     *)

\* this step is task t appending to the store or pruning it
Wrote(t) ==
    /\ loops'[t] # loops[t]
    /\ \/ patterns' # patterns
       \/ history'.last = "prune"

\* C13: between the first append of a cycle and its prune no other task
\* appends to the same store or prunes it.
WritesOfOneCycleAreExclusive ==
    [][\A t \in LoopIds : Wrote(t) => history.window \subseteq {t}]_vars

\* this step is a task pruning the store (after its last append, if any):
\* history'.before is then the list the prune filtered
Prunes ==
    loops' # loops /\ history'.last = "prune"

IsPrefixOf(short, long) ==
    /\ Len(short) <= Len(long)
    /\ SubSeq(long, 1, Len(short)) = short

CountIn(seq, p) ==
    Cardinality({j \in 1..Len(seq) : seq[j] = p})

\* C23: whatever the interleaving of the loop tasks and the readers, a step
\* that does not prune leaves every stored pattern in place, and a prune
\* works on the store as it is then, the appends of every cycle included,
\* and keeps every pattern of it stamped after its cutoff.
AppendsSurvivePrunes ==
    [][IF Prunes
       THEN /\ IsPrefixOf(patterns, history'.before)
            /\ \A j \in 1..Len(history'.before) :
                  history'.before[j].timestamp > history'.cutoff =>
                      CountIn(patterns', history'.before[j])
                         >= CountIn(history'.before, history'.before[j])
       ELSE IsPrefixOf(patterns, patterns')]_vars

\* one task has just pruned, dropping patterns and keeping others, while the
\* other task is between an append of its cycle and its prune
AppendsSurvivePrunesWitness ==
    /\ history.last = "prune"
    /\ history.window # {}
    /\ patterns # <<>>
    /\ Len(patterns) < Len(history.before)

-----------------------------------------------------------------------------
(* Properties of the dict-based sweep detector, under SpecDict *)

\* candle i closes below its open, and at least two of the 20 candles
\* before it have a high less than 0.0005 below its own: it sweeps above
\* the level they mark
SweepsEqualHighs(i) ==
    /\ i >= 20
    /\ historical_data[i + 1].close < historical_data[i + 1].open
    /\ Cardinality({j \in (i - 20)..(i - 1) :
                       /\ historical_data[j + 1].high < historical_data[i + 1].high
                       /\ historical_data[i + 1].high - historical_data[j + 1].high < 5})
          >= 2

\* the candles after candle i that sweep equal highs too
LaterSweeps(i) ==
    {j \in (i + 1)..(Len(historical_data) - 1) : SweepsEqualHighs(j)}

\* C30: the dict-based detector returns at most 2 patterns, and for every
\* candle i >= 20 that sweeps equal highs and closes below its open, at
\* most one later candle doing so too, a BEARISH LS stamped with candle i.
DictSweepGivesBearishLs ==
    callee = "dict _detect_liquidity_sweeps" =>
        /\ Len(detected) <= 2
        /\ \A i \in 20..(Len(historical_data) - 1) :
              SweepsEqualHighs(i) /\ Cardinality(LaterSweeps(i)) <= 1 =>
                  \E j \in 1..Len(detected) :
                      /\ detected[j].type = "LS"
                      /\ detected[j].direction = "BEARISH"
                      /\ detected[j].timestamp = historical_data[i + 1].timestamp

=============================================================================
